---- MODULE Spec2Model ----
(***************************************************************************)
(* A model of the RAG knowledge-base core of financial-data-extractor:     *)
(* the text chunker (utils/text_chunker.py), the FAISS-backed vector store *)
(* (models/vector_store.py), the ingestion path of RAGQuestionAnswerer     *)
(* (models/qa_model.py, models/embeddings.py) and of RAGProcessor          *)
(* (processors/rag_processor.py).                                          *)
(*                                                                         *)
(* Text is a sequence of one-character strings.  Embeddings are sequences  *)
(* of small integers; the FAISS IndexFlatL2 is the pair (d, vecs) with     *)
(* squared-L2 distances, computed as FAISS computes them.                  *)
(***************************************************************************)
EXTENDS Integers, Sequences, FiniteSets, TLC

\* ------------------------------------------------------------------ bounds
\* Longest raw text handed to a chunker.
MaxTextLen == 4
\* Largest chunk_size / chunk_overlap a TextChunker is constructed with.
MaxChunkSize == 3
\* Most vectors the similarity structure holds, most chunks in one
\* add_chunks batch, largest k of a search.
MaxStore == 2
MaxBatch == 2
MaxK == 2
\* Longest document handed to RAGProcessor.add_document, most documents it
\* holds, largest chunk_size of its DocumentChunker.
MaxDocLen == 3
MaxDocs == 2
MaxProcChunkSize == 3
MaxCandidates == 3
MaxHistory == 3
MaxExchanges == 4
MaxQueries == 2

\* ------------------------------------------------------- program constants
\* RAGQuestionAnswerer.__init__: TextChunker(chunk_size=500, chunk_overlap=50)
QAChunkSize == 500
QAChunkOverlap == 50
\* RAGProcessor.__init__: chunk_size: int = 1000, chunk_overlap: int = 200
ProcChunkSize == 1000
ProcChunkOverlap == 200

VARIABLES
    \* TextChunker.chunk_with_overlap: the object's fields, the call's locals
    chunk_size, chunk_overlap, text, start, tc_chunks, tc_seen, tc_pc,
    \* VectorStore: self.embedding_dimension, self.index (the vectors of the
    \* IndexFlatL2, in insertion order), self.chunks (the entry list)
    embedding_dimension, index, chunks,
    \* the two artifacts of the persistence layout, <path>.index and
    \* <path>.chunks
    index_file, chunks_file,
    \* the last VectorStore call: its name, its arguments, whether it raised
    vs_res,
    \* the store as it was when save last wrote both artifacts
    vs_saved,
    \* RAGQuestionAnswerer.add_document: where the call is, its text, the
    \* store as it was when the call began, the chunks the chunker returned
    qa_pc, qa_text, qa_before, qa_made,
    \* RAGProcessor: the chunker's configuration, self.documents, self.chunks
    \* (p_chunks), and the last call
    p_chunk_size, p_chunk_overlap, documents, p_chunks, p_res,
    \* three threads that share one VectorStore: each one's position in its
    \* call and the call's locals
    adder, clearer, searcher,
    \* DocumentEmbedder: whether self.model is loaded, and the memory cache of
    \* the cache manager (text -> embedding)
    model_loaded, memory_cache,
    \* the last RAGQuestionAnswerer.answer_question call and what it returned
    qa_res,
    \* QAService: where an add_document_from_file call is, and what the last
    \* public operation gave its caller
    svc_pc, svc_res,
    \* DataNormalizer: the candidates that _combine_sources collected for one
    \* variable key, and what _resolve_conflicts stored for that key
    dn_values, dn_resolved,
    \* ConversationMemory: self.max_history, self.history, and every exchange
    \* add_exchange was called with, in call order
    max_history, history, mem_log,
    \* the last DocumentChunker.chunk_text call: its text and what it returned
    dc_res,
    \* the last call made on the DocumentEmbedder itself: its arguments, what
    \* it returned, and what it asked of the model
    em_res,
    \* AsyncTaskManager: self.running, the task queue, the worker threads
    \* (each one's position in _worker and its local task), every AsyncTask
    \* created by submit_task, and the thread that calls submit_task and then
    \* reads the status of the task it got back
    running, task_queue, workers, tasks, caller

tcVars == <<chunk_size, chunk_overlap, text, start, tc_chunks, tc_seen, tc_pc>>
vsVars == <<embedding_dimension, index, chunks, index_file, chunks_file,
            vs_res, vs_saved>>
qaVars == <<qa_pc, qa_text, qa_before, qa_made>>
procVars == <<p_chunk_size, p_chunk_overlap, documents, p_chunks, p_res>>
concVars == <<adder, clearer, searcher>>
emVars == <<model_loaded, memory_cache>>
ansVars == <<qa_res>>
svcVars == <<svc_pc, svc_res>>
dnVars == <<dn_values, dn_resolved>>
memVars == <<max_history, history, mem_log>>
dcVars == <<dc_res>>
emCallVars == <<em_res>>
taskVars == <<running, task_queue, workers, tasks, caller>>
restVars == <<dnVars, memVars, dcVars, emCallVars, taskVars>>

vars == <<tcVars, vsVars, qaVars, procVars, concVars, emVars, ansVars, svcVars,
          restVars>>

\* ------------------------------------------------------------ text helpers
Min(a, b) == IF a < b THEN a ELSE b
Max(a, b) == IF a > b THEN a ELSE b
SetMax(S) == CHOOSE x \in S : \A y \in S : y <= x

\* The characters a raw text is drawn from: a letter, the sentence
\* terminators, and the two kinds of whitespace.
RawChars == {"a", ".", "!", " ", "\n"}

\* Python's str.isspace for the characters of the model (what \s matches).
IsSpace(c) == c \in {" ", "\n"}

RECURSIVE SeqsUpTo(_, _)
SeqsUpTo(S, n) ==
    IF n = 0 THEN {<<>>}
    ELSE LET shorter == SeqsUpTo(S, n - 1)
         IN  shorter \cup {Append(s, c) : s \in {t \in shorter : Len(t) = n - 1}, c \in S}

RECURSIVE LStrip(_)
LStrip(s) == IF s # <<>> /\ IsSpace(Head(s)) THEN LStrip(Tail(s)) ELSE s

RECURSIVE RStrip(_)
RStrip(s) ==
    IF s # <<>> /\ IsSpace(s[Len(s)]) THEN RStrip(SubSeq(s, 1, Len(s) - 1)) ELSE s

\* str.strip()
Strip(s) == RStrip(LStrip(s))

\* str blankness as the guards test it: not t or not t.strip().
IsBlankEmptyOnly(t) == t = <<>>

IsBlank(t) == Strip(t) = <<>>

\* re.sub(r'\s+', ' ', text): every run of whitespace becomes one space.
RECURSIVE CollapseSpaces(_)
CollapseSpaces(s) ==
    IF s = <<>> THEN <<>>
    ELSE IF IsSpace(Head(s)) THEN <<" ">> \o CollapseSpaces(LStrip(s))
    ELSE <<Head(s)>> \o CollapseSpaces(Tail(s))

\* TextChunker._clean_text.  After the first substitution no newline is
\* left, so the second one (r'\n\s*\n' -> '\n\n') never matches.
CleanText(s) == Strip(CollapseSpaces(s))

\* Python's s[i:j] for any integers i, j (negative ones count from the end).
PySlice(s, i, j) ==
    LET n  == Len(s)
        lo == IF i < 0 THEN Max(i + n, 0) ELSE Min(i, n)
        hi == IF j < 0 THEN Max(j + n, 0) ELSE Min(j, n)
    IN  IF lo >= hi THEN <<>> ELSE SubSeq(s, lo + 1, hi)

\* str.rfind(d): the highest 0-based position where d occurs in s, or -1.
RFind(s, d) ==
    LET hits == {p \in 0..(Len(s) - Len(d)) : SubSeq(s, p + 1, p + Len(d)) = d}
    IN  IF hits = {} THEN -1 ELSE SetMax(hits)

\* chunk_with_overlap, line 145: the delimiters in the order they are tried.
Delimiters == << <<".", " ">>, <<"!", " ">>, <<"?", " ">>, <<"\n">> >>

\* Lines 143-149: the end of the window [s, e) of txt, moved back to just
\* after the last occurrence of the first delimiter that occurs at all.
BoundaryEnd(txt, s, e) ==
    LET window == PySlice(txt, s, e)
        found  == {i \in 1..Len(Delimiters) : RFind(window, Delimiters[i]) # -1}
    IN  IF e < Len(txt) /\ found # {}
        THEN LET d == Delimiters[CHOOSE i \in found : \A j \in found : i <= j]
             IN  s + RFind(window, d) + Len(d)
        ELSE e

\* Line 140 with a window of chunk_size + 1 characters.
WindowEndWide(txt, s, size) == BoundaryEnd(txt, s, Min(s + size + 1, Len(txt)))

\* Line 140 and 143-149.
WindowEnd(txt, s, size) == BoundaryEnd(txt, s, Min(s + size, Len(txt)))

\* Line 164 without the overlap.
NextStartAtEnd(e, overlap) == e

\* Line 164: the next window start.
NextStart(e, overlap) == e - overlap

\* ------------------------------------------ TextChunker.chunk_with_overlap
\* Lines 151-161: the chunk appended by one pass of the loop, if any.
AppendChunk(lst, txt, s, e) ==
    LET chunk_text == Strip(PySlice(txt, s, e))
    IN  IF chunk_text # <<>>
        THEN Append(lst, [text |-> chunk_text, chunk_index |-> Len(lst),
                          start_pos |-> s, end_pos |-> e, total_chunks |-> -1])
        ELSE lst

\* Lines 166-168: the second pass stamps total_chunks.
StampTotal(lst) == [i \in 1..Len(lst) |-> [lst[i] EXCEPT !.total_chunks = Len(lst)]]

\* Lines 129-137: the guard on blank text, the cleaning, the loop's locals.
ChunkEnter ==
    /\ tc_pc = "call"
    /\ IF Strip(text) = <<>>
       THEN /\ tc_pc' = "done"
            /\ UNCHANGED <<text, start, tc_chunks, tc_seen>>
       ELSE /\ text' = CleanText(text)
            /\ start' = 0
            /\ tc_chunks' = <<>>
            /\ tc_seen' = {}
            /\ tc_pc' = "loop"
    /\ UNCHANGED <<chunk_size, chunk_overlap>>

\* Lines 139-171: the loop head.  While start < text_length one pass of the
\* body; otherwise the second pass and the return.  text, chunk_size and
\* chunk_overlap are fixed during a call, so a pass is a function of start
\* alone: a pass that begins where an earlier pass of the call began repeats
\* that pass, and every pass after it, for ever.  tc_seen holds the starts
\* of the passes made; the model ends such a call in "diverges" and does not
\* unroll the unbounded chunk list it builds.
ChunkLoop ==
    /\ tc_pc = "loop"
    /\ IF start < Len(text)
       THEN IF start \in tc_seen
            THEN /\ tc_pc' = "diverges"
                 /\ UNCHANGED <<start, tc_chunks, tc_seen>>
            ELSE LET end == WindowEnd(text, start, chunk_size)
                 IN  /\ tc_chunks' = AppendChunk(tc_chunks, text, start, end)
                     /\ start' = NextStart(end, chunk_overlap)
                     /\ tc_seen' = tc_seen \cup {start}
                     /\ tc_pc' = "loop"
       ELSE /\ tc_chunks' = StampTotal(tc_chunks)
            /\ tc_pc' = "done"
            /\ UNCHANGED <<start, tc_seen>>
    /\ UNCHANGED <<chunk_size, chunk_overlap, text>>

\* A TextChunker(chunk_size, chunk_overlap) with 0 <= chunk_overlap <
\* chunk_size, and a call chunk_with_overlap(text) about to run.
InitChunk ==
    /\ chunk_size \in 1..MaxChunkSize
    /\ chunk_overlap \in 0..(chunk_size - 1)
    /\ text \in SeqsUpTo(RawChars, MaxTextLen)
    /\ start = 0
    /\ tc_chunks = <<>>
    /\ tc_seen = {}
    /\ tc_pc = "call"


\* --------------------------------------------------- TextChunker.chunk_text
\* re.split(r'\n\s*\n', text), line 108: the pieces between the matches.  A
\* match starts at a newline and runs through whitespace to the last newline
\* of that run of whitespace.
RECURSIVE SplitBlankLines(_)
SplitBlankLines(t) ==
    LET ends(p) == {q \in (p + 1)..Len(t) :
                        t[q] = "\n" /\ \A r \in p..q : IsSpace(t[r])}
        P == {p \in 1..Len(t) : t[p] = "\n" /\ ends(p) # {}}
    IN  IF P = {} THEN <<t>>
        ELSE LET p == CHOOSE x \in P : \A y \in P : x <= y
                 q == SetMax(ends(p))
             IN  <<SubSeq(t, 1, p - 1)>> \o SplitBlankLines(SubSeq(t, q + 1, Len(t)))

\* re.split(r'(?<=[.!?])\s+', text), line 113: a match is a run of
\* whitespace that follows one of . ! ?
RECURSIVE SplitSentenceEnds(_)
SplitSentenceEnds(t) ==
    LET P == {p \in 2..Len(t) : IsSpace(t[p]) /\ t[p - 1] \in {".", "!", "?"}}
    IN  IF P = {} THEN <<t>>
        ELSE LET p == CHOOSE x \in P : \A y \in P : x <= y
             IN  <<SubSeq(t, 1, p - 1)>>
                     \o SplitSentenceEnds(LStrip(SubSeq(t, p, Len(t))))

\* [x.strip() for x in pieces if x.strip()], lines 109 and 114.
RECURSIVE StrippedNonEmpty(_)
StrippedNonEmpty(pieces) ==
    IF pieces = <<>> THEN <<>>
    ELSE (IF Strip(Head(pieces)) # <<>> THEN <<Strip(Head(pieces))>> ELSE <<>>)
             \o StrippedNonEmpty(Tail(pieces))

\* TextChunker._split_into_paragraphs, lines 106-109.
SplitIntoParagraphs(t) == StrippedNonEmpty(SplitBlankLines(t))

\* TextChunker._split_into_sentences, lines 111-115.
SplitIntoSentences(t) == StrippedNonEmpty(SplitSentenceEnds(t))

\* "if current_chunk: chunks.append(current_chunk.strip())", lines 52-56,
\* 62-66 and 73-77.
Flushed(lst, current_chunk) ==
    IF current_chunk # <<>> THEN Append(lst, Strip(current_chunk)) ELSE lst

\* The loop over the sentences of a long paragraph, lines 60-69; acc holds
\* chunks and current_chunk.
RECURSIVE PackSentences(_, _, _)
PackSentences(sentences, size, acc) ==
    IF sentences = <<>> THEN acc
    ELSE LET sentence == Head(sentences)
         IN  IF Len(acc.current_chunk) + Len(sentence) > size
             THEN PackSentences(Tail(sentences), size,
                      [chunks |-> Flushed(acc.chunks, acc.current_chunk),
                       current_chunk |-> sentence \o <<" ">>])
             ELSE PackSentences(Tail(sentences), size,
                      [chunks |-> acc.chunks,
                       current_chunk |-> acc.current_chunk \o sentence \o <<" ">>])

\* The loop over the paragraphs, lines 47-80.
RECURSIVE PackParagraphs(_, _, _)
PackParagraphs(paragraphs, size, acc) ==
    IF paragraphs = <<>> THEN acc
    ELSE LET para == Head(paragraphs)
         IN  IF Len(para) > size
             THEN PackParagraphs(Tail(paragraphs), size,
                      PackSentences(SplitIntoSentences(para), size,
                          [chunks |-> Flushed(acc.chunks, acc.current_chunk),
                           current_chunk |-> <<>>]))
             ELSE IF Len(acc.current_chunk) + Len(para) > size
             THEN PackParagraphs(Tail(paragraphs), size,
                      [chunks |-> Flushed(acc.chunks, acc.current_chunk),
                       current_chunk |-> para \o <<"\n", "\n">>])
             ELSE PackParagraphs(Tail(paragraphs), size,
                      [chunks |-> acc.chunks,
                       current_chunk |-> acc.current_chunk \o para \o <<"\n", "\n">>])

\* TextChunker.chunk_text, lines 24-96: the chunks returned for txt.
ChunksOfText(txt, size) ==
    IF Strip(txt) = <<>> THEN <<>>
    ELSE LET packed == PackParagraphs(SplitIntoParagraphs(CleanText(txt)), size,
                                      [chunks |-> <<>>, current_chunk |-> <<>>])
             texts  == IF Strip(packed.current_chunk) # <<>>
                       THEN Append(packed.chunks, Strip(packed.current_chunk))
                       ELSE packed.chunks
         IN  [i \in 1..Len(texts) |->
                 [text |-> texts[i], chunk_index |-> i - 1,
                  total_chunks |-> Len(texts)]]

\* A call chunk_text(text) on the chunker, from entry to return.
ChunkTextCall ==
    /\ tc_pc = "call"
    /\ tc_chunks' = ChunksOfText(text, chunk_size)
    /\ tc_pc' = "done"
    /\ UNCHANGED <<chunk_size, chunk_overlap, text, start, tc_seen>>

\* ============================================================ VectorStore
\* The embedding dimensions a store is constructed with.
Dims == {1, 2}

\* The coordinates of the embeddings added and of the queries searched.
Coords == {0, 2}
QueryCoords == {0, 1}

RECURSIVE SeqsOfLen(_, _)
SeqsOfLen(S, n) ==
    IF n = 0 THEN {<<>>}
    ELSE {Append(s, c) : s \in SeqsOfLen(S, n - 1), c \in S}

\* np.zeros(d)
Zeros(d) == [i \in 1..d |-> 0]

\* The texts of the chunks added.
Texts == {"t1", "t2"}

\* The chunk dictionaries a caller may hand to add_chunks for a store of
\* dimension d: with an embedding of the right length or of another length,
\* and with the 'embedding' or the 'text' key missing.  ('metadata' is read
\* with .get and a default, and is kept together with the text.)
Vectors(d) == {[i \in 1..d |-> c] : c \in Coords}
EmbeddingsFor(d) == Vectors(d) \cup {Zeros(d + 1)}

ChunkDicts(d) ==
    [text : Texts, embedding : EmbeddingsFor(d)]
        \cup [text : Texts]
        \cup [embedding : EmbeddingsFor(d)]

Batches(d) == UNION {SeqsOfLen(ChunkDicts(d), n) : n \in 0..MaxBatch}

\* The batches the ingestion pipeline builds: every chunk with its text and
\* an embedding of the store's dimension.
GoodBatches(d) ==
    UNION {SeqsOfLen([text : Texts, embedding : Vectors(d)], n) : n \in 1..MaxBatch}

HasKey(dict, key) == key \in DOMAIN dict

\* A file of the persistence layout: missing, unreadable (truncated by a
\* failed write), or holding data.
NoFile == [state |-> "missing", data |-> <<>>]
BadFile == [state |-> "unreadable", data |-> <<>>]
FileOf(x) == [state |-> "ok", data |-> x]

\* faiss.IndexFlatL2: the squared Euclidean distance of two vectors.
RECURSIVE SqDistFrom(_, _, _)
SqDistFrom(u, v, i) ==
    IF i > Len(u) THEN 0
    ELSE (u[i] - v[i]) * (u[i] - v[i]) + SqDistFrom(u, v, i + 1)

SqDist(u, v) == SqDistFrom(u, v, 1)

IndexSearchUnordered(vecs, q, k) ==
    [p \in 1..k |-> [dist |-> SqDist(vecs[p], q), idx |-> p - 1]]

\* index.search(q, k), line 89, for 1 <= k <= ntotal: the (distance, idx)
\* pairs of the k nearest vectors, nearest first; equal distances come in
\* insertion order.  idx is 0-based, as FAISS returns it.
IndexSearch(vecs, q, k) ==
    LET n == Len(vecs)
        Before(i, j) ==
            \/ SqDist(vecs[i], q) < SqDist(vecs[j], q)
            \/ SqDist(vecs[i], q) = SqDist(vecs[j], q) /\ i < j
        Rank(i) == Cardinality({j \in 1..n : Before(j, i)})
    IN  [p \in 1..k |->
            LET i == CHOOSE i \in 1..n : Rank(i) = p - 1
            IN  [dist |-> SqDist(vecs[i], q), idx |-> i - 1]]

\* VectorStore.search, lines 78-98, on a store with vectors vecs and entry
\* list lst.
Search(vecs, lst, q, k) ==
    IF Len(vecs) = 0 THEN <<>>
    ELSE LET hits == IndexSearch(vecs, q, Min(k, Len(vecs)))
             kept == SelectSeq(hits, LAMBDA h : h.idx < Len(lst))
         IN  [p \in 1..Len(kept) |->
                 [chunk |-> lst[kept[p].idx + 1], distance |-> kept[p].dist]]

\* np.exp(-distance), line 119, in thousandths rounded down.  A threshold
\* that is a whole number of thousandths compares with the rounded value as
\* it does with the exact one.
ExpNeg(distance) ==
    CASE distance = 0 -> 1000
      [] distance = 1 -> 367
      [] distance = 2 -> 135
      [] distance = 3 -> 49
      [] distance = 4 -> 18
      [] distance = 5 -> 6
      [] distance = 6 -> 2
      [] OTHER -> 0

\* The thresholds of search_with_score, in thousandths: None is <<>>.
Thresholds == {<<>>, <<18>>, <<300>>}

\* VectorStore.search_with_score, lines 113-123.
SearchWithScore(vecs, lst, q, k, threshold) ==
    LET results == Search(vecs, lst, q, k)
        scored  == [p \in 1..Len(results) |->
                       [chunk |-> results[p].chunk,
                        similarity |-> ExpNeg(results[p].distance)]]
    IN  SelectSeq(scored,
                  LAMBDA r : threshold = <<>> \/ r.similarity >= threshold[1])

\* VectorStore.get_stats, lines 180-186.
GetStats(dim, vecs, lst) ==
    [total_chunks |-> Len(lst), embedding_dimension |-> dim,
     index_size |-> Len(vecs)]

\* Line 46: a chunk without the 'embedding' key raises KeyError.
MissingEmbedding(batch) == \E i \in 1..Len(batch) : ~HasKey(batch[i], "embedding")

\* Lines 46-49: np.array over rows of unequal length cannot be made a
\* float32 matrix and raises ValueError.
Ragged(batch) ==
    \E i, j \in 1..Len(batch) : Len(batch[i].embedding) # Len(batch[j].embedding)

IndexAddUnchecked(d, batch) == TRUE

\* Line 55: index.add(x) asserts that x has d columns; all rows of x have
\* the length of the first.
IndexAddAccepts(d, batch) == Len(batch[1].embedding) = d

\* Lines 58-63: the entries appended by the loop, which stops with KeyError
\* at the first chunk without the 'text' key.
RECURSIVE StoredCopies(_)
StoredCopies(batch) ==
    IF batch = <<>> \/ ~HasKey(Head(batch), "text") THEN <<>>
    ELSE <<[text |-> Head(batch).text]>> \o StoredCopies(Tail(batch))

LoopRaises(batch) == \E i \in 1..Len(batch) : ~HasKey(batch[i], "text")

\* What the checks below say of a batch; recorded with the call.
BatchFacts(d, batch) ==
    [n |-> Len(batch),
     wrong_length |-> {i \in 1..Len(batch) :
                         HasKey(batch[i], "embedding") /\ Len(batch[i].embedding) # d}]

\* Lines 46-55: the batch is refused before anything is stored.
RaisesBeforeStoring(d, batch) ==
    \/ MissingEmbedding(batch)
    \/ Ragged(batch)
    \/ ~IndexAddAccepts(d, batch)

\* VectorStore.add_chunks, lines 34-65.  Only calls that store something are
\* limited by MaxStore.
AddChunks(batch) ==
    /\ (batch # <<>> /\ ~RaisesBeforeStoring(embedding_dimension, batch)) =>
           /\ Len(index) + Len(batch) <= MaxStore
           /\ Len(chunks) + Len(batch) <= MaxStore
    /\ IF batch = <<>>
       THEN /\ vs_res' = [op |-> "add_chunks", raised |-> FALSE,
                          batch |-> BatchFacts(embedding_dimension, batch)]
            /\ UNCHANGED <<index, chunks>>
       ELSE IF RaisesBeforeStoring(embedding_dimension, batch)
       THEN /\ vs_res' = [op |-> "add_chunks", raised |-> TRUE,
                          batch |-> BatchFacts(embedding_dimension, batch)]
            /\ UNCHANGED <<index, chunks>>
       ELSE /\ index' = index \o [i \in 1..Len(batch) |-> batch[i].embedding]
            /\ chunks' = chunks \o StoredCopies(batch)
            /\ vs_res' = [op |-> "add_chunks", raised |-> LoopRaises(batch),
                          batch |-> BatchFacts(embedding_dimension, batch)]
    /\ UNCHANGED <<embedding_dimension, index_file, chunks_file, vs_saved>>

\* VectorStore.clear, lines 125-129.
Clear ==
    /\ index' = <<>>
    /\ chunks' = <<>>
    /\ vs_res' = [op |-> "clear", raised |-> FALSE]
    /\ UNCHANGED <<embedding_dimension, index_file, chunks_file, vs_saved>>

\* A call of search(q, k), lines 67-98.  The call changes nothing; what it
\* returns is Search of the store and the recorded arguments.
DoSearch(q, k) ==
    /\ vs_res' = [op |-> "search", raised |-> FALSE, q |-> q, k |-> k]
    /\ UNCHANGED <<embedding_dimension, index, chunks, index_file, chunks_file,
                   vs_saved>>

\* A call of search_with_score(q, k, threshold), lines 100-123.
DoSearchWithScore(q, k, threshold) ==
    /\ vs_res' = [op |-> "search_with_score", raised |-> FALSE, q |-> q, k |-> k,
                  threshold |-> threshold]
    /\ UNCHANGED <<embedding_dimension, index, chunks, index_file, chunks_file,
                   vs_saved>>

\* VectorStore.save, lines 131-154.  fails says where the file system lets
\* the call down: nowhere ("no"), at write_index ("index", line 144), at
\* open(chunks_path, 'wb') ("open", line 148) or inside pickle.dump, after
\* open has truncated the file ("dump", line 149).
SaveFailures == {"no", "index", "open", "dump"}

Save(fails) ==
    /\ index_file' = IF fails = "index" THEN index_file ELSE FileOf(index)
    /\ chunks_file' = CASE fails = "no" -> FileOf(chunks)
                        [] fails = "dump" -> BadFile
                        [] OTHER -> chunks_file
    /\ vs_saved' = CASE fails = "no" ->
                          [valid |-> TRUE, embedding_dimension |-> embedding_dimension,
                           index |-> index, chunks |-> chunks]
                     [] fails = "index" -> vs_saved
                     [] OTHER ->
                          [valid |-> FALSE, embedding_dimension |-> embedding_dimension,
                           index |-> <<>>, chunks |-> <<>>]
    /\ vs_res' = [op |-> "save", raised |-> fails # "no"]
    /\ UNCHANGED <<embedding_dimension, index, chunks>>

LoadChunksOnly ==
    /\ IF index_file.state # "ok" \/ chunks_file.state # "ok"
       THEN /\ vs_res' = [op |-> "load", raised |-> TRUE, on_new |-> FALSE]
            /\ UNCHANGED chunks
       ELSE /\ chunks' = chunks_file.data
            /\ vs_res' = [op |-> "load", raised |-> FALSE,
                          on_new |-> vs_res.op = "init"]
    /\ UNCHANGED <<embedding_dimension, index, index_file, chunks_file, vs_saved>>

\* VectorStore.load, lines 156-178: read_index into self.index (line 168),
\* then pickle.load into self.chunks (line 173); either read raises on a
\* missing or unreadable file.
Load ==
    /\ IF index_file.state # "ok"
       THEN /\ vs_res' = [op |-> "load", raised |-> TRUE, on_new |-> FALSE]
            /\ UNCHANGED <<index, chunks>>
       ELSE /\ index' = index_file.data
            /\ IF chunks_file.state # "ok"
               THEN /\ vs_res' = [op |-> "load", raised |-> TRUE, on_new |-> FALSE]
                    /\ UNCHANGED chunks
               ELSE /\ chunks' = chunks_file.data
                    /\ vs_res' = [op |-> "load", raised |-> FALSE,
                                  on_new |-> vs_res.op = "init"]
    /\ UNCHANGED <<embedding_dimension, index_file, chunks_file, vs_saved>>

\* VectorStore.__init__, lines 16-32: a new store of the same dimension
\* takes the place of the old one; the files stay.
NewStore ==
    /\ index' = <<>>
    /\ chunks' = <<>>
    /\ vs_res' = [op |-> "init", raised |-> FALSE]
    /\ UNCHANGED <<embedding_dimension, index_file, chunks_file, vs_saved>>

\* A newly created store and no artifact on disk.
InitStore ==
    /\ embedding_dimension \in Dims
    /\ index = <<>>
    /\ chunks = <<>>
    /\ index_file = NoFile
    /\ chunks_file = NoFile
    /\ vs_res = [op |-> "init", raised |-> FALSE]
    /\ vs_saved = [valid |-> FALSE, embedding_dimension |-> embedding_dimension,
                   index |-> <<>>, chunks |-> <<>>]

Queries(d) == {[i \in 1..d |-> c] : c \in QueryCoords}

\* =========================================================== RAGProcessor
\* The characters a document is drawn from.
DocChars == {"a", ".", " "}

\* DocumentChunker.chunk_text, lines 35-62: the chunks made from position s
\* of txt on.
RECURSIVE ChunkTextFrom(_, _, _, _)
ChunkTextFrom(txt, size, overlap, s) ==
    IF ~(s < Len(txt)) THEN <<>>
    ELSE LET window      == PySlice(txt, s, s + size)
             break_point == Max(RFind(window, <<".">>), RFind(window, <<"\n">>))
             breaks      == s + size < Len(txt) /\ break_point > size \div 2
             chunk_text  == IF breaks THEN PySlice(window, 0, break_point + 1)
                            ELSE window
             end         == IF breaks THEN s + break_point + 1 ELSE s + size
             next        == IF end < Len(txt) THEN end - overlap ELSE Len(txt)
         IN  <<[text |-> Strip(chunk_text), start |-> s, end |-> end]>>
                 \o ChunkTextFrom(txt, size, overlap, next)

\* DocumentChunker.chunk_text, lines 19-64.
ChunkText(txt, size, overlap) ==
    IF txt = <<>> THEN <<>> ELSE ChunkTextFrom(txt, size, overlap, 0)

\* A call DocumentChunker(size, overlap).chunk_text(txt).
DocChunkText(txt, size, overlap) ==
    dc_res' = [op |-> "chunk_text", text |-> txt,
               chunks |-> ChunkText(txt, size, overlap)]

\* No DocumentChunker call yet.
InitDocChunker == dc_res = [op |-> "init", text |-> <<>>, chunks |-> <<>>]

RECURSIVE TextLenSum(_)
TextLenSum(lst) == IF lst = <<>> THEN 0 ELSE Len(Head(lst).text) + TextLenSum(Tail(lst))

\* RAGProcessor.get_stats, lines 323-330.  avg_chunk_size is the quotient of
\* the pair given here; conversation_history is the length of the memory,
\* which no operation of this section touches.
ProcStats(docs, lst) ==
    [num_documents |-> Len(docs), num_chunks |-> Len(lst),
     avg_chunk_size |-> IF lst = <<>> THEN <<0, 1>> ELSE <<TextLenSum(lst), Len(lst)>>]

\* Lines 196-200: the chunks the loop has appended to lst when the embedding
\* of chunk number failAt raises (all of them when failAt is 0).
ProcAppended(lst, made, doc_id, failAt) ==
    LET n == IF failAt = 0 THEN Len(made) ELSE failAt - 1
    IN  lst \o [i \in 1..n |->
                   [text |-> made[i].text, start |-> made[i].start,
                    end |-> made[i].end, doc_id |-> doc_id,
                    chunk_id |-> Len(lst) + i - 1]]

\* RAGProcessor.add_document, lines 173-205.  failAt is the chunk at which
\* _get_embedding (lines 207-212) raises, 0 when it never does.
ProcAddDocument(doc, failAt) ==
    LET doc_id == Len(documents)
        made   == ChunkText(doc, p_chunk_size, p_chunk_overlap)
    IN  /\ Len(documents) < MaxDocs
        /\ failAt \in 0..Len(made)
        /\ documents' = Append(documents, doc)
        /\ p_chunks' = ProcAppended(p_chunks, made, doc_id, failAt)
        /\ p_res' = [op |-> "add_document", raised |-> failAt # 0,
                     made |-> Len(made), failAt |-> failAt]
        /\ UNCHANGED <<p_chunk_size, p_chunk_overlap>>

\* RAGProcessor.clear_documents, lines 317-321.
ClearDocuments ==
    /\ documents' = <<>>
    /\ p_chunks' = <<>>
    /\ p_res' = [op |-> "clear", raised |-> FALSE]
    /\ UNCHANGED <<p_chunk_size, p_chunk_overlap>>

\* RAGProcessor.__init__, lines 140-161, with a configuration whose windows
\* advance.
InitProc ==
    /\ p_chunk_size \in 2..MaxProcChunkSize
    /\ p_chunk_overlap \in 0..(p_chunk_size \div 2)
    /\ documents = <<>>
    /\ p_chunks = <<>>
    /\ p_res = [op |-> "init", raised |-> FALSE]

\* ================================================ VectorStore, concurrently
\* VectorStore takes no lock.  Three threads call add_chunks, clear and
\* search on one store; a step of a thread is one statement of its call.

\* The embedding the pipeline gives a chunk text.
EmbOf(d, t) == [i \in 1..d |-> IF t = "t1" THEN 0 ELSE 2]

\* The batches of embedded chunks the adding thread brings.
EmbeddedBatches(d) ==
    UNION {SeqsOfLen({[text |-> t, embedding |-> EmbOf(d, t)] : t \in Texts}, n) :
               n \in 1..MaxBatch}

IdleThread == [pc |-> "idle"]

\* add_chunks, lines 39-55: the batch is checked and its vectors are added
\* to the index.
AdderIndexAdd(batch) ==
    /\ adder.pc = "idle"
    /\ Len(index) + Len(batch) <= MaxStore
    /\ Len(chunks) + Len(batch) <= MaxStore
    /\ index' = index \o [i \in 1..Len(batch) |-> batch[i].embedding]
    /\ adder' = [pc |-> "append", batch |-> batch, i |-> 1]
    /\ UNCHANGED <<chunks, clearer, searcher>>

\* add_chunks, lines 58-63: one pass of the loop appends one entry.
AdderAppend ==
    /\ adder.pc = "append"
    /\ chunks' = Append(chunks, [text |-> adder.batch[adder.i].text])
    /\ adder' = IF adder.i = Len(adder.batch) THEN IdleThread
                ELSE [adder EXCEPT !.i = adder.i + 1]
    /\ UNCHANGED <<index, clearer, searcher>>

\* clear, line 127: _initialize_index() puts an empty index in place.
ClearerIndex ==
    /\ clearer.pc = "idle"
    /\ index' = <<>>
    /\ clearer' = [pc |-> "chunks"]
    /\ UNCHANGED <<chunks, adder, searcher>>

\* clear, line 128: self.chunks = [].
ClearerChunks ==
    /\ clearer.pc = "chunks"
    /\ chunks' = <<>>
    /\ clearer' = IdleThread
    /\ UNCHANGED <<index, adder, searcher>>

\* search, line 78: an empty index returns [] at once.
SearcherCheck(q, k) ==
    /\ searcher.pc = "idle"
    /\ searcher' = IF Len(index) = 0
                   THEN [pc |-> "returned", ntotal |-> 0, lens |-> {},
                         hits |-> <<>>, results |-> <<>>]
                   ELSE [pc |-> "search", q |-> q, k |-> k]
    /\ UNCHANGED <<index, chunks, adder, clearer>>

\* search, lines 88-89: k is clamped to ntotal as it is now and the index is
\* searched; each hit is kept with the vector it matched.  An index emptied
\* since line 78 gives no hit.
SearcherSearch ==
    /\ searcher.pc = "search"
    /\ LET k    == Min(searcher.k, Len(index))
           hits == IF k = 0 THEN <<>> ELSE IndexSearch(index, searcher.q, k)
       IN  searcher' = [pc |-> "collect", ntotal |-> Len(index), lens |-> {},
                        hits |-> [p \in 1..Len(hits) |->
                                     [idx |-> hits[p].idx, dist |-> hits[p].dist,
                                      vec |-> index[hits[p].idx + 1]]],
                        results |-> <<>>]
    /\ UNCHANGED <<index, chunks, adder, clearer>>

\* search, lines 93-98: one pass of the loop over the hits reads
\* len(self.chunks) and, for a position it has, the entry there; after the
\* last hit the call returns.
SearcherCollect ==
    /\ searcher.pc = "collect"
    /\ searcher' =
           IF searcher.hits = <<>> THEN [searcher EXCEPT !.pc = "returned"]
           ELSE LET hit == Head(searcher.hits)
                IN  [searcher EXCEPT
                        !.hits = Tail(searcher.hits),
                        !.lens = searcher.lens \cup {Len(chunks)},
                        !.results =
                            IF hit.idx < Len(chunks)
                            THEN Append(searcher.results,
                                        [chunk |-> chunks[hit.idx + 1],
                                         distance |-> hit.dist, vec |-> hit.vec])
                            ELSE searcher.results]
    /\ UNCHANGED <<index, chunks, adder, clearer>>

\* The caller has the results; the thread is free for its next search.
SearcherReturn ==
    /\ searcher.pc = "returned"
    /\ searcher' = IdleThread
    /\ UNCHANGED <<index, chunks, adder, clearer>>

InitConc ==
    /\ adder = IdleThread
    /\ clearer = IdleThread
    /\ searcher = IdleThread

\* ======================================== RAGQuestionAnswerer.add_document
\* model.encode of one chunk text: a vector of the store's dimension.
Encode(d, t) == [i \in 1..d |-> IF Len(t) % 2 = 0 THEN 0 ELSE 2]

\* What may happen in embed_chunks: the model loads and encodes; the model
\* cannot be loaded (_load_model, lines 33-44, raises); the model loads and
\* encode raises (embed_texts, lines 95-109, returns np.array([])).
EmbedOutcomes == {"ok", "load_fails", "encode_fails"}

\* DocumentEmbedder.embed_chunks, lines 111-131: zip over the embeddings
\* sets 'embedding' on every chunk, or on none when embed_texts returned the
\* empty array.
EmbedChunks(d, made, outcome) ==
    [i \in 1..Len(made) |->
        IF outcome = "ok"
        THEN [text |-> made[i].text, embedding |-> Encode(d, made[i].text)]
        ELSE [text |-> made[i].text]]

\* add_document, lines 39-44: blank text returns at once; any other text
\* goes to self.chunker.chunk_with_overlap.
QAAddDocument(doc) ==
    /\ qa_pc = "idle"
    /\ qa_text' = doc
    /\ qa_before' = [index |-> index, chunks |-> chunks]
    /\ qa_made' = <<>>
    /\ IF IsBlank(doc)
       THEN /\ qa_pc' = "returned"
            /\ UNCHANGED tcVars
       ELSE /\ qa_pc' = "chunking"
            /\ text' = doc
            /\ start' = 0
            /\ tc_chunks' = <<>>
            /\ tc_seen' = {}
            /\ tc_pc' = "call"
            /\ UNCHANGED <<chunk_size, chunk_overlap>>
    /\ UNCHANGED vsVars

\* add_document, lines 44-56, from the point where the chunker was called.
\* A chunker that never returns leaves the call where it is, for ever.
\* Otherwise: no chunks, return; else embed_chunks and add_chunks, and what
\* either raises leaves add_document.
QAResume(outcome) ==
    /\ qa_pc = "chunking"
    /\ tc_pc \in {"done", "diverges"}
    /\ outcome = "load_fails" => ~model_loaded
    /\ IF tc_pc = "diverges"
       THEN /\ qa_pc' = "never_returns"
            /\ UNCHANGED <<qa_made, tc_pc, vsVars, model_loaded>>
       ELSE /\ qa_made' = tc_chunks
            /\ tc_pc' = "idle"
            /\ IF tc_chunks = <<>>
               THEN /\ qa_pc' = "returned"
                    /\ UNCHANGED <<vsVars, model_loaded>>
               ELSE IF outcome = "load_fails"
               THEN /\ qa_pc' = "raised"
                    /\ UNCHANGED <<vsVars, model_loaded>>
               ELSE /\ model_loaded' = TRUE
                    /\ AddChunks(EmbedChunks(embedding_dimension, tc_chunks, outcome))
                    /\ qa_pc' = IF vs_res'.raised THEN "raised" ELSE "returned"
    /\ UNCHANGED <<qa_text, qa_before, chunk_size, chunk_overlap, text, start,
                   tc_chunks, tc_seen, memory_cache>>

\* The caller has the outcome of add_document and may call again; the
\* locals of the call are gone.
QAReturn ==
    /\ qa_pc \in {"returned", "raised"}
    /\ qa_pc' = "idle"
    /\ qa_text' = <<>>
    /\ qa_before' = [index |-> <<>>, chunks |-> <<>>]
    /\ qa_made' = <<>>

\* RAGQuestionAnswerer.__init__, lines 15-29.
InitQA ==
    /\ qa_pc = "idle"
    /\ qa_text = <<>>
    /\ qa_before = [index |-> <<>>, chunks |-> <<>>]
    /\ qa_made = <<>>

\* The chunker RAGQuestionAnswerer constructs, line 28, not yet called.
InitQAChunker ==
    /\ chunk_size = QAChunkSize
    /\ chunk_overlap = QAChunkOverlap
    /\ text = <<>>
    /\ start = 0
    /\ tc_chunks = <<>>
    /\ tc_seen = {}
    /\ tc_pc = "idle"

\* ====================================== RAGQuestionAnswerer.answer_question
\* The questions asked: empty, whitespace only, and two that the model
\* encodes differently.
Questions == {<<>>, <<" ">>, <<"a">>, <<"a", "a">>}

\* The min_similarity arguments, in thousandths (the default is 0.3).
MinSimilarities == {18, 300}

\* The three fixed parts of an answer: the two fixed answers and the text
\* _generate_answer builds from retrieved contexts.
InvalidQuestion == "Please provide a valid question."
NoInformation == "I could not find relevant information to answer this question."
Generated == "Based on the ..."

\* DocumentEmbedder.embed_text, lines 46-78, for a text that is not blank
\* and a model that is or gets loaded: the cached embedding if there is
\* one; else what encode gives, np.zeros(dimension) when encode raises.
EmbedText(d, t, cache, outcome) ==
    IF t \in DOMAIN cache THEN cache[t]
    ELSE IF outcome = "encode_fails" THEN Zeros(d)
    ELSE Encode(d, t)

\* Lines 65-75: a successful encode is put in the memory cache.
CacheAfter(d, t, cache, outcome) ==
    IF t \in DOMAIN cache \/ outcome = "encode_fails" THEN cache
    ELSE [x \in DOMAIN cache \cup {t} |-> IF x = t THEN Encode(d, t) ELSE cache[x]]

\* answer_question, lines 107-117: the sources built from the retrieved
\* (chunk, similarity) pairs, in their order.
SourcesOf(results) ==
    [p \in 1..Len(results) |->
        [text |-> results[p].chunk.text, similarity |-> results[p].similarity]]

\* Where the question embedding of a call came from: the cache, the model's
\* encode, or np.zeros after encode raised.
EmbeddingFrom(t, cache, outcome) ==
    IF t \in DOMAIN cache THEN "cache"
    ELSE IF outcome = "encode_fails" THEN "zeros"
    ELSE "encode"

\* What a call leaves in qa_res.  entries is len(self.vector_store.chunks) at
\* the call; embedding says where the question embedding came from ("none"
\* when embed_text did not return one); retrieved is what search_with_score
\* returned.
AnswerRecord(question, raised, answer, sources, confidence, embedding, retrieved) ==
    [op |-> "answer_question", question |-> question, raised |-> raised,
     answer |-> answer, sources |-> sources, confidence |-> confidence,
     entries |-> Len(chunks), embedding |-> embedding,
     searched |-> embedding # "none", retrieved |-> retrieved]

\* RAGQuestionAnswerer.answer_question(question, k, min_similarity), lines
\* 70-126.  outcome is what the embedding model does in this call.
AnswerQuestion(question, k, min_similarity, outcome) ==
    /\ outcome = "load_fails" => ~model_loaded
    /\ IF IsBlank(question)
       THEN /\ qa_res' = AnswerRecord(question, FALSE, InvalidQuestion, <<>>, 0,
                                      "none", <<>>)
            /\ UNCHANGED emVars
       ELSE IF outcome = "load_fails"
       THEN /\ qa_res' = AnswerRecord(question, TRUE, "", <<>>, 0, "none", <<>>)
            /\ UNCHANGED emVars
       ELSE LET question_embedding ==
                    EmbedText(embedding_dimension, question, memory_cache, outcome)
                results == SearchWithScore(index, chunks, question_embedding, k,
                                           <<min_similarity>>)
                sources == SourcesOf(results)
                from == EmbeddingFrom(question, memory_cache, outcome)
            IN  /\ model_loaded' = TRUE
                /\ memory_cache' =
                       CacheAfter(embedding_dimension, question, memory_cache, outcome)
                /\ qa_res' =
                       IF results = <<>>
                       THEN AnswerRecord(question, FALSE, NoInformation, <<>>, 0,
                                         from, results)
                       ELSE AnswerRecord(question, FALSE, Generated, sources,
                                         sources[1].similarity, from, results)

\* DocumentEmbedder.__init__, lines 16-31, with lazy_load: no model yet; and
\* an empty memory cache.
InitEmbedder ==
    /\ model_loaded = FALSE
    /\ memory_cache = <<>>

InitAnswer == qa_res = [op |-> "init", raised |-> FALSE]

\* ================================================================ QAService
\* The files handed to add_document_from_file: the type given or detected
\* from the extension, whether the extractor raises, and the text it
\* extracts otherwise.
Files ==
    [type : {"pdf", "excel", "unsupported"}, extract : {"raises", "text"},
     full_text : {<<>>, <<" ">>, <<"a">>}]

ExceptNothing(raised) == FALSE

\* 'except Exception as e' around the body of each public operation: it
\* handles whatever the body raised.
ExceptException(raised) == raised

\* What a public operation gives its caller: the success dictionary; or,
\* when the body raised, the dictionary of the except clause with success
\* False and the error message; raised says that the exception left the
\* operation.  stage names the call that raised.
SvcResult(op, body_raised, stage, chunks_added) ==
    [op |-> op, inner_raised |-> body_raised, stage |-> stage,
     raised |-> body_raised /\ ~ExceptException(body_raised),
     success |-> ~body_raised, error |-> body_raised,
     chunks_added |-> chunks_added]

\* A result with success False that a return statement built (lines 66-69,
\* 82-85, 88-91).
SvcRefusal(op, stage) ==
    [op |-> op, inner_raised |-> FALSE, stage |-> stage, raised |-> FALSE,
     success |-> FALSE, error |-> TRUE, chunks_added |-> 0]

\* add_document_from_file, lines 56-97: type detection, extraction, and the
\* call of qa_system.add_document.
SvcAddDocumentFromFile(file) ==
    /\ svc_pc = "idle" /\ qa_pc = "idle"
    /\ IF file.type = "unsupported"
       THEN /\ svc_res' = SvcRefusal("add_document_from_file", "type")
            /\ UNCHANGED <<svc_pc, qaVars, tcVars>>
       ELSE IF file.extract = "raises"
       THEN /\ svc_res' = SvcResult("add_document_from_file", TRUE, "extract", 0)
            /\ UNCHANGED <<svc_pc, qaVars, tcVars>>
       ELSE IF file.full_text = <<>>
       THEN /\ svc_res' = SvcRefusal("add_document_from_file", "no_text")
            /\ UNCHANGED <<svc_pc, qaVars, tcVars>>
       ELSE /\ QAAddDocument(file.full_text)
            /\ svc_pc' = "adding"
            /\ UNCHANGED svc_res
    /\ UNCHANGED vsVars

\* add_document_from_file, lines 97-116, from the point where add_document
\* was called: what it raised is handled; else the knowledge base is saved
\* and chunks_added is read from get_stats.  fails is where save fails.
SvcAddFinish(fails) ==
    /\ svc_pc = "adding"
    /\ qa_pc \in {"returned", "raised", "never_returns"}
    /\ IF qa_pc = "never_returns"
       THEN /\ svc_pc' = "never_returns"
            /\ UNCHANGED <<svc_res, qaVars, vsVars>>
       ELSE /\ svc_pc' = "idle"
            /\ QAReturn
            /\ IF qa_pc = "raised"
               THEN /\ svc_res' = SvcResult("add_document_from_file", TRUE,
                                            "add_document", 0)
                    /\ UNCHANGED vsVars
               ELSE /\ Save(fails)
                    /\ svc_res' = SvcResult("add_document_from_file", fails # "no",
                                            "save",
                                            GetStats(embedding_dimension, index,
                                                     chunks).total_chunks)

\* QAService.answer_question, lines 118-150.
SvcAnswerQuestion(question, k, min_similarity, outcome) ==
    /\ svc_pc = "idle" /\ qa_pc = "idle"
    /\ AnswerQuestion(question, k, min_similarity, outcome)
    /\ svc_res' = SvcResult("answer_question", qa_res'.raised, "answer_question", 0)
    /\ UNCHANGED svc_pc

\* QAService.get_knowledge_base_stats, lines 152-165.
SvcGetStats ==
    /\ svc_pc = "idle" /\ qa_pc = "idle"
    /\ svc_res' = SvcResult("get_knowledge_base_stats", FALSE, "get_stats", 0)
    /\ UNCHANGED svc_pc

\* QAService.clear_knowledge_base, lines 167-180.
SvcClear ==
    /\ svc_pc = "idle" /\ qa_pc = "idle"
    /\ Clear
    /\ svc_res' = SvcResult("clear_knowledge_base", FALSE, "clear", 0)
    /\ UNCHANGED svc_pc

\* QAService.__init__, lines 18-32, with no knowledge base on disk.
InitService ==
    /\ svc_pc = "idle"
    /\ svc_res = [op |-> "init", raised |-> FALSE, inner_raised |-> FALSE]

\* =========================================================== DataNormalizer
\* Values are whole numbers and confidences are tenths (9 is the float 0.9);
\* a resolved value is the fraction num / den.
CandidateValues == {50, 100}
CandidateConfidences == {0, 5, 7, 9}

\* The threshold of line 75, 0.2, in tenths.
GapThreshold == 2

\* One entry of combined[var_key] (lines 46-51): its value and confidence.
Candidates == [value : CandidateValues, confidence : CandidateConfidences]

\* sum(...) of lines 79 and 80.
RECURSIVE SeqSum(_)
SeqSum(s) == IF s = <<>> THEN 0 ELSE Head(s) + SeqSum(Tail(s))

\* sorted(values, key=confidence, reverse=True), line 72: a stable sort, so
\* candidates of equal confidence keep the order they came in.
RECURSIVE SortedByConfidence(_)
SortedByConfidence(values) ==
    IF values = <<>> THEN <<>>
    ELSE LET best == SetMax({values[i].confidence : i \in DOMAIN values})
             at == CHOOSE i \in DOMAIN values :
                       /\ values[i].confidence = best
                       /\ \A j \in 1..(i - 1) : values[j].confidence # best
             others == [j \in 1..(Len(values) - 1) |->
                           IF j < at THEN values[j] ELSE values[j + 1]]
         IN <<values[at]>> \o SortedByConfidence(others)

\* The confidences are Python floats, binary64. FloatErr(k) is how far the
\* float nearest to k / 10 lies from k / 10, in units of 1 / (10 * 2^58).
FloatErr(k) ==
    CASE k = 0 -> 0 [] k = 1 -> 16 [] k = 2 -> 32 [] k = 3 -> 0 - 32
      [] k = 4 -> 64 [] k = 5 -> 0 [] k = 6 -> 0 - 64 [] k = 7 -> 0 - 128
      [] k = 8 -> 128 [] k = 9 -> 64 [] k = 10 -> 0

\* Half the distance between neighbouring floats at 0.2 (2^-56), in the same
\* unit: a difference rounds to a float above the float 0.2 when it is more
\* than this above it.
HalfUlp == 40

\* The test of line 75, top - second > 0.2, on floats. A difference that is
\* not two tenths is far from 0.2 on one side; one of two tenths is decided
\* by the representation errors of the three floats.
ExceedsGap(top, second) ==
    IF top - second # GapThreshold THEN top - second > GapThreshold
    ELSE FloatErr(top) - FloatErr(second) - FloatErr(GapThreshold) > HalfUlp

\* One term of the sum of line 80.
Weigh(v) == v.value * v.confidence

\* What a return statement gives back: the statement and the number.
Resolved(rule, num, den) == [rule |-> rule, num |-> num, den |-> den]

\* _resolve_multi_value, lines 69-82.
ResolveMultiValue(values) ==
    LET values_sorted == SortedByConfidence(values)
        total_weight == SeqSum([i \in DOMAIN values |-> values[i].confidence])
        weighted_sum == SeqSum([i \in DOMAIN values |-> Weigh(values[i])])
    IN IF ExceedsGap(values_sorted[1].confidence, values_sorted[2].confidence)
       THEN Resolved("top", values_sorted[1].value, 1)
       ELSE IF total_weight > 0
            THEN Resolved("mean", weighted_sum, total_weight)
            ELSE Resolved("fallback", values_sorted[1].value, 1)

\* The body of the loop of _resolve_conflicts, lines 59-65, for one key.
ResolveOne(values) ==
    IF Len(values) = 1 THEN Resolved("single", values[1].value, 1)
    ELSE ResolveMultiValue(values)

\* _resolve_conflicts on the candidates of one variable key.
ResolveConflicts(values) ==
    /\ dn_values' = values
    /\ dn_resolved' = ResolveOne(values)

\* DataNormalizer.__init__, lines 12-13: nothing resolved yet.
InitNormalizer ==
    /\ dn_values = <<>>
    /\ dn_resolved = Resolved("none", 0, 1)

\* ======================================================= ConversationMemory
\* The default of max_history, line 93.
DefaultMaxHistory == 10

MemQuestions == {"q1", "q2"}
MemAnswers == {"a1", "a2"}

\* The dictionary of lines 99-103.
Exchange(question, answer, sources) ==
    [question |-> question, answer |-> answer, sources |-> sources]

\* h[:m] for m >= 0: the first m elements.
OldestOf(h, m) == SubSeq(h, 1, Min(m, Len(h)))

\* h[-m:] for m >= 0, line 109: from position len(h) - m, or from the
\* beginning when m is larger than len(h) or when m is 0 (-0 is 0).
RecentOf(h, m) ==
    LET from == IF m = 0 THEN 0 ELSE Max(Len(h) - m, 0)
    IN SubSeq(h, from + 1, Len(h))

\* ConversationMemory.add_exchange, lines 97-109.
AddExchange(question, answer, sources) ==
    LET exchange == Exchange(question, answer, sources)
        appended == Append(history, exchange)
    IN /\ Len(mem_log) < MaxExchanges
       /\ history' = IF Len(appended) > max_history
                     THEN RecentOf(appended, max_history)
                     ELSE appended
       /\ mem_log' = Append(mem_log, exchange)
       /\ UNCHANGED max_history

\* ConversationMemory.clear, lines 125-127.
MemoryClear ==
    /\ history' = <<>>
    /\ mem_log' = <<>>
    /\ UNCHANGED max_history

\* ConversationMemory(max_history), lines 93-95, for max_history of 1 and
\* more.
InitMemory ==
    /\ max_history \in 1..MaxHistory
    /\ history = <<>>
    /\ mem_log = <<>>

\* ConversationMemory(), as RAGProcessor.__init__ creates it (line 151).
InitMemoryDefault ==
    /\ max_history = DefaultMaxHistory
    /\ history = <<>>
    /\ mem_log = <<>>

\* ======================================================= RAGProcessor.query
\* The defaults of top_k and similarity_threshold (0.7, in thousandths),
\* lines 143-144.
ProcTopK == 5
ProcSimilarityThreshold == 700

\* The cosine similarities the embedding model gives, in thousandths.
SimilarityScores == {500, 900}

\* The answer of line 281.
ProcNoInformation == "I couldn't find relevant information in the documents to answer this question."

\* results.sort(key=similarity_score, reverse=True), line 250: a stable sort.
RECURSIVE SortedByScore(_)
SortedByScore(results) ==
    IF results = <<>> THEN <<>>
    ELSE LET best == SetMax({results[i].similarity_score : i \in DOMAIN results})
             at == CHOOSE i \in DOMAIN results :
                       /\ results[i].similarity_score = best
                       /\ \A j \in 1..(i - 1) : results[j].similarity_score # best
             others == [j \in 1..(Len(results) - 1) |->
                           IF j < at THEN results[j] ELSE results[j + 1]]
         IN <<results[at]>> \o SortedByScore(others)

\* The loop of lines 243-247 from chunk number i on: the chunks whose
\* similarity reaches the threshold, with their score.
RECURSIVE AboveThreshold(_, _, _)
AboveThreshold(lst, scores, i) ==
    IF i > Len(lst) THEN <<>>
    ELSE (IF scores[i] >= ProcSimilarityThreshold
          THEN <<[text |-> lst[i].text, similarity_score |-> scores[i]]>>
          ELSE <<>>) \o AboveThreshold(lst, scores, i + 1)

\* RAGProcessor.search, lines 214-251, once the query is embedded: scores[i]
\* is the cosine similarity of chunk i to the query.
ProcSearch(lst, scores) ==
    PySlice(SortedByScore(AboveThreshold(lst, scores, 1)), 0, ProcTopK)

\* The sources of lines 288-294 (texts here are shorter than 200 characters).
ProcSources(relevant_chunks) ==
    [i \in DOMAIN relevant_chunks |->
        [text |-> relevant_chunks[i].text, score |-> relevant_chunks[i].similarity_score]]

\* The answer of lines 280-301: the fixed sentence, or the lead of line 297
\* and the text of the most similar chunk.
ProcAnswer(relevant_chunks) ==
    IF relevant_chunks = <<>> THEN [lead |-> ProcNoInformation, text |-> <<>>]
    ELSE [lead |-> "Based on the documents, here's what I found:",
          text |-> relevant_chunks[1].text]

\* RAGProcessor.query(question, use_context, return_sources), lines 253-315.
\* encode_fails: the embedding model raises on the question (line 212);
\* search asks it only when there are chunks (lines 225-232).
ProcQuery(question, return_sources, scores, encode_fails) ==
    /\ scores \in [DOMAIN p_chunks -> SimilarityScores]
    /\ IF p_chunks # <<>> /\ encode_fails
       THEN /\ p_res' = [op |-> "query", raised |-> TRUE, question |-> question]
            /\ UNCHANGED memVars
       ELSE LET relevant_chunks == ProcSearch(p_chunks, scores)
                sources == ProcSources(relevant_chunks)
                answer == ProcAnswer(relevant_chunks)
            IN /\ AddExchange(question, answer,
                              IF return_sources THEN sources ELSE <<>>)
               /\ p_res' = [op |-> "query", raised |-> FALSE,
                            question |-> question, answer |-> answer,
                            num_sources |-> Len(sources),
                            confidence |-> IF sources # <<>> THEN sources[1].score
                                           ELSE 0]
    /\ UNCHANGED <<p_chunk_size, p_chunk_overlap, documents, p_chunks>>

\* ========================================================= DocumentEmbedder
\* The texts handed to the embedder.
EmbedderTexts == {<<>>, <<" ">>, <<"a">>, <<"a", "a">>}

\* What a call leaves in em_res.  load says whether the call constructed (or
\* tried to construct) the SentenceTransformer; encoded holds the texts the
\* call passed to model.encode.
EmbedderRecord(op, arg, raised, result, load, encoded) ==
    [op |-> op, arg |-> arg, raised |-> raised, result |-> result,
     load |-> load, encoded |-> encoded]

\* DocumentEmbedder.embed_text(text), lines 46-78.
EmbedTextCall(t, outcome) ==
    /\ outcome = "load_fails" => ~model_loaded
    /\ IF outcome = "load_fails"
       THEN /\ em_res' = EmbedderRecord("embed_text", t, TRUE, <<>>, TRUE, <<>>)
            /\ UNCHANGED emVars
       ELSE /\ model_loaded' = TRUE
            /\ IF Strip(t) = <<>>
               THEN /\ em_res' = EmbedderRecord("embed_text", t, FALSE,
                                     Zeros(embedding_dimension), ~model_loaded, <<>>)
                    /\ UNCHANGED memory_cache
               ELSE /\ em_res' = EmbedderRecord("embed_text", t, FALSE,
                                     EmbedText(embedding_dimension, t, memory_cache, outcome),
                                     ~model_loaded,
                                     IF t \in DOMAIN memory_cache THEN <<>> ELSE <<t>>)
                    /\ memory_cache' =
                           CacheAfter(embedding_dimension, t, memory_cache, outcome)

\* DocumentEmbedder.embed_texts(texts), lines 80-109: the list goes to
\* model.encode as it is; np.array([]) when encode raises.
EmbedTexts(d, texts, outcome) ==
    IF outcome = "ok" THEN [i \in 1..Len(texts) |-> Encode(d, texts[i])] ELSE <<>>

\* A call of embed_texts, or of embed_chunks (lines 111-131) on the chunks
\* with these texts.
EmbedBatchCall(op, texts, outcome) ==
    /\ outcome = "load_fails" => ~model_loaded
    /\ UNCHANGED memory_cache
    /\ IF texts = <<>> /\ op = "embed_chunks"
       THEN /\ em_res' = EmbedderRecord(op, texts, FALSE, <<>>, FALSE, <<>>)
            /\ UNCHANGED model_loaded
       ELSE IF outcome = "load_fails"
       THEN /\ em_res' = EmbedderRecord(op, texts, TRUE, <<>>, TRUE, <<>>)
            /\ UNCHANGED model_loaded
       ELSE /\ model_loaded' = TRUE
            /\ em_res' =
                   IF texts = <<>>
                   THEN EmbedderRecord(op, texts, FALSE, <<>>, ~model_loaded, <<>>)
                   ELSE EmbedderRecord(op, texts, FALSE,
                            IF op = "embed_texts"
                            THEN EmbedTexts(embedding_dimension, texts, outcome)
                            ELSE EmbedChunks(embedding_dimension,
                                     [i \in 1..Len(texts) |-> [text |-> texts[i]]],
                                     outcome),
                            ~model_loaded, texts)

\* No call on the embedder yet.
InitEmbedderCalls == em_res = EmbedderRecord("init", <<>>, FALSE, <<>>, FALSE, <<>>)

\* ========================================================= AsyncTaskManager
\* src/utils/async_tasks.py. The default of max_workers, line 57.
MaxWorkers == 2

\* How many AsyncTask objects are created, and how many times start spawns
\* its workers.
MaxTasks == 2
MaxStarts == 1

\* TaskStatus, lines 15-20.
QUEUED == "queued"
RUNNING == "running"
COMPLETED == "completed"
FAILED == "failed"
CANCELLED == "cancelled"
TerminalStatuses == {COMPLETED, FAILED, CANCELLED}

\* What the body of a task function does once entered: it returns a value,
\* raises an exception that derives from Exception, or raises one that does
\* not (SystemExit, KeyboardInterrupt).
FunctionBehaviours == {"returns", "raises", "exits"}

\* What submit_task is given besides the id: whether positional arguments
\* and a progress_callback keyword are passed, whether the function has a
\* progress_callback parameter, and what its body does. A caller passes
\* progress_callback exactly to a function without positional arguments
\* that takes it.
Submissions ==
    {s \in [args : 0..1, kw_callback : BOOLEAN, takes_callback : BOOLEAN,
            behaviour : FunctionBehaviours] :
        s.kw_callback <=> (s.takes_callback /\ s.args = 0)}

\* The value the function of task id returns.
ReturnOf(id) == 10 * id

\* The error string of the TypeError for an unexpected keyword argument,
\* and of an exception raised by the body.
UnexpectedKeyword == "unexpected keyword argument 'progress_callback'"
BodyError == "raised by the function"

\* AsyncTask.__init__, lines 26-39.
AsyncTask(s) ==
    [args |-> s.args, kw_callback |-> s.kw_callback,
     takes_callback |-> s.takes_callback, behaviour |-> s.behaviour,
     status |-> QUEUED, result |-> 0, error |-> "",
     cancel_requested |-> FALSE, executed |-> 0]

\* A worker thread: where it is in _worker, its local variable task (0 when
\* it holds none), and what task.cancel_requested was when get returned it.
Worker(pc, task, cancel_at_get) ==
    [pc |-> pc, task |-> task, cancel_at_get |-> cancel_at_get]

\* The calling thread: whether submit_task has just returned, the task it
\* returned, and the status the caller read from it.
Caller(pc, task, seen) == [pc |-> pc, task |-> task, seen |-> seen]

\* AsyncTaskManager.__init__, lines 57-63.
InitTasks ==
    /\ running = FALSE
    /\ task_queue = <<>>
    /\ workers = <<>>
    /\ tasks = <<>>
    /\ caller = Caller("idle", 0, "none")

\* start, lines 65-76.
Start ==
    /\ ~running
    /\ Len(workers) + MaxWorkers <= MaxStarts * MaxWorkers
    /\ running' = TRUE
    /\ workers' = workers \o [i \in 1..MaxWorkers |-> Worker("while", 0, FALSE)]
    /\ UNCHANGED <<task_queue, tasks, caller>>

\* stop, lines 78-81.
Stop ==
    /\ running
    /\ running' = FALSE
    /\ UNCHANGED <<task_queue, workers, tasks, caller>>

\* submit_task, lines 134-155: the task is created, stored under its id and
\* put on the queue; the id is the next unused one.
SubmitTask(s) ==
    /\ caller.pc = "idle"
    /\ Len(tasks) < MaxTasks
    /\ tasks' = Append(tasks, AsyncTask(s))
    /\ task_queue' = Append(task_queue, Len(tasks) + 1)
    /\ caller' = Caller("returned", Len(tasks) + 1, "none")
    /\ UNCHANGED <<running, workers>>

\* The caller reads task.status of the task submit_task returned
\* (test_submit_task, src/tests/test_performance.py:170-171).
InspectStatus ==
    /\ caller.pc = "returned"
    /\ caller' = Caller("idle", caller.task, tasks[caller.task].status)
    /\ UNCHANGED <<running, task_queue, workers, tasks>>

\* cancel_task, lines 161-172, with request_cancel, lines 48-51, on a task
\* that was found and has no request yet.
CancelTask(task_id) ==
    /\ task_id \in DOMAIN tasks
    /\ ~tasks[task_id].cancel_requested
    /\ tasks' = [tasks EXCEPT ![task_id].cancel_requested = TRUE]
    /\ UNCHANGED <<running, task_queue, workers, caller>>

\* _worker, line 85: the test of the while loop.
WorkerWhile(w) ==
    /\ workers[w].pc = "while"
    /\ workers' = [workers EXCEPT ![w].pc =
                       IF running THEN "get" ELSE "exited"]
    /\ UNCHANGED <<running, task_queue, tasks, caller>>

\* _worker, line 87: get takes the oldest task; on an empty queue it raises
\* Empty after the timeout, which line 130 catches, and the loop goes on.
WorkerGet(w) ==
    /\ workers[w].pc = "get"
    /\ IF task_queue = <<>>
       THEN /\ workers' = [workers EXCEPT ![w].pc = "while"]
            /\ UNCHANGED task_queue
       ELSE /\ workers' = [workers EXCEPT ![w] =
                    Worker("check", Head(task_queue),
                           tasks[Head(task_queue)].cancel_requested)]
            /\ task_queue' = Tail(task_queue)
    /\ UNCHANGED <<running, tasks, caller>>

\* _worker, lines 92-95: a task cancelled before it started.
WorkerCheckCancel(w) ==
    /\ workers[w].pc = "check"
    /\ IF tasks[workers[w].task].cancel_requested
       THEN /\ tasks' = [tasks EXCEPT ![workers[w].task].status = CANCELLED]
            /\ workers' = [workers EXCEPT ![w].pc = "while"]
       ELSE /\ workers' = [workers EXCEPT ![w].pc = "lock"]
            /\ UNCHANGED tasks
    /\ UNCHANGED <<running, task_queue, caller>>

\* _worker, lines 98-100.
WorkerSetRunning(w) ==
    /\ workers[w].pc = "lock"
    /\ tasks' = [tasks EXCEPT ![workers[w].task].status = RUNNING]
    /\ workers' = [workers EXCEPT ![w].pc = "call"]
    /\ UNCHANGED <<running, task_queue, caller>>

\* _worker, lines 104-111: progress_callback is added to the keyword
\* arguments when it is among them or when there are positional arguments,
\* and the function is called. A function without that parameter raises
\* TypeError before its body runs (lines 120-123, then 125-127).
WorkerCall(w) ==
    LET t == workers[w].task
        adds_callback == tasks[t].kw_callback \/ tasks[t].args > 0
    IN  /\ workers[w].pc = "call"
        /\ IF adds_callback /\ ~tasks[t].takes_callback
           THEN /\ tasks' = [tasks EXCEPT ![t].error = UnexpectedKeyword,
                                          ![t].status = FAILED]
                /\ workers' = [workers EXCEPT ![w].pc = "while"]
           ELSE /\ tasks' = [tasks EXCEPT ![t].executed = @ + 1]
                /\ workers' = [workers EXCEPT ![w].pc = "in_fn"]
        /\ UNCHANGED <<running, task_queue, caller>>

\* _worker, lines 111-127: the function is left. A return is followed by
\* the test of cancel_requested; an Exception is caught by line 120; any
\* other exception passes both except clauses, runs the finally block and
\* ends the thread.
WorkerFinish(w) ==
    LET t == workers[w].task
    IN  /\ workers[w].pc = "in_fn"
        /\ CASE tasks[t].behaviour = "returns" ->
                    /\ tasks' = IF tasks[t].cancel_requested
                                THEN [tasks EXCEPT ![t].status = CANCELLED]
                                ELSE [tasks EXCEPT ![t].result = ReturnOf(t),
                                                   ![t].status = COMPLETED]
                    /\ workers' = [workers EXCEPT ![w].pc = "while"]
             [] tasks[t].behaviour = "raises" ->
                    /\ tasks' = [tasks EXCEPT ![t].error = BodyError,
                                              ![t].status = FAILED]
                    /\ workers' = [workers EXCEPT ![w].pc = "while"]
             [] tasks[t].behaviour = "exits" ->
                    /\ workers' = [workers EXCEPT ![w].pc = "dead"]
                    /\ UNCHANGED tasks
        /\ UNCHANGED <<running, task_queue, caller>>

\* One step of worker thread w.
WorkerStep(w) ==
    \/ WorkerWhile(w)
    \/ WorkerGet(w)
    \/ WorkerCheckCancel(w)
    \/ WorkerSetRunning(w)
    \/ WorkerCall(w)
    \/ WorkerFinish(w)

\* The components added after the service, at rest.
InitRest == InitNormalizer /\ InitMemoryDefault /\ InitDocChunker
    /\ InitEmbedderCalls /\ InitTasks

\* ================================================================== specs
\* The chunker alone: a call of chunk_with_overlap on every text and
\* configuration.
InitChunkIdle ==
    /\ chunk_size = 1
    /\ chunk_overlap = 0
    /\ text = <<>>
    /\ start = 0
    /\ tc_chunks = <<>>
    /\ tc_seen = {}
    /\ tc_pc = "idle"

\* RAGProcessor() with its default configuration and nothing added.
InitProcIdle ==
    /\ p_chunk_size = ProcChunkSize
    /\ p_chunk_overlap = ProcChunkOverlap
    /\ documents = <<>>
    /\ p_chunks = <<>>
    /\ p_res = [op |-> "init", raised |-> FALSE]

\* The components added around the chunkers and the store, at rest.
InitOthers == InitEmbedder /\ InitAnswer /\ InitService /\ InitRest

\* What the operations of one component leave alone.
vsRest == <<embedding_dimension, index_file, chunks_file, vs_res, vs_saved>>
otherVars == <<emVars, ansVars, svcVars, restVars>>
notChunk == <<vsVars, qaVars, procVars, concVars, otherVars>>
notStore == <<tcVars, qaVars, procVars, concVars, otherVars>>
notProc == <<tcVars, vsVars, qaVars, concVars, otherVars>>
notConc == <<tcVars, vsRest, qaVars, procVars, otherVars>>
notQA == <<procVars, concVars, ansVars, svcVars, restVars>>

NextChunk ==
    \/ ChunkEnter /\ UNCHANGED notChunk
    \/ ChunkLoop /\ UNCHANGED notChunk

\* A chunker about to be called and nothing else in motion.
InitChunkOnly == InitChunk /\ InitStore /\ InitQA /\ InitProcIdle /\ InitConc
    /\ InitOthers

SpecChunk == InitChunkOnly /\ [][NextChunk]_vars

\* A store and nothing else in motion.
InitStoreOnly == InitChunkIdle /\ InitStore /\ InitQA /\ InitProcIdle /\ InitConc
    /\ InitOthers

\* Any sequence of add_chunks and clear calls on a newly created store.
NextAddClear ==
    \/ \E batch \in Batches(embedding_dimension) : AddChunks(batch) /\ UNCHANGED notStore
    \/ Clear /\ UNCHANGED notStore

SpecAddClear == InitStoreOnly /\ [][NextAddClear]_vars

\* add_chunks of well-formed batches, clear and persistence, with the file
\* system that save may fail on, and the creation of a new store over the
\* same files.
NextStore ==
    \/ \E batch \in GoodBatches(embedding_dimension) : AddChunks(batch) /\ UNCHANGED notStore
    \/ Clear /\ UNCHANGED notStore
    \/ \E fails \in SaveFailures : Save(fails) /\ UNCHANGED notStore
    \/ Load /\ UNCHANGED notStore
    \/ NewStore /\ UNCHANGED notStore

SpecStore == InitStoreOnly /\ [][NextStore]_vars

\* The same with the two searches.
NextSearch ==
    \/ NextStore
    \/ \E q \in Queries(embedding_dimension), k \in 1..MaxK :
           DoSearch(q, k) /\ UNCHANGED notStore
    \/ \E q \in Queries(embedding_dimension), k \in 1..MaxK, t \in Thresholds :
           DoSearchWithScore(q, k, t) /\ UNCHANGED notStore

SpecSearch == InitStoreOnly /\ [][NextSearch]_vars

\* The batches of the round trip: the well-formed ones, and a chunk without
\* text, whose vector add_chunks stores before it raises.
RoundTripBatches(d) == GoodBatches(d) \cup {<<[embedding |-> v]>> : v \in Vectors(d)}

\* save without failures, a new store, load: the round trip.
NextRoundTrip ==
    \/ \E batch \in RoundTripBatches(embedding_dimension) :
           AddChunks(batch) /\ UNCHANGED notStore
    \/ Save("no") /\ UNCHANGED notStore
    \/ NewStore /\ UNCHANGED notStore
    \/ Load /\ UNCHANGED notStore

SpecRoundTrip == InitStoreOnly /\ [][NextRoundTrip]_vars

\* RAGQuestionAnswerer over a store that its owner may also fill directly:
\* add_document calls, one at a time, each running the chunker of line 28.
NextQA ==
    \/ \E doc \in SeqsUpTo(DocChars, MaxDocLen) :
           QAAddDocument(doc) /\ UNCHANGED <<notQA, emVars>>
    \/ ChunkEnter /\ UNCHANGED notChunk
    \/ ChunkLoop /\ UNCHANGED notChunk
    \/ \E outcome \in EmbedOutcomes : QAResume(outcome) /\ UNCHANGED notQA
    \/ QAReturn /\ UNCHANGED <<tcVars, vsVars, notQA, emVars>>
    \/ \E batch \in GoodBatches(embedding_dimension) :
           qa_pc = "idle" /\ AddChunks(batch) /\ UNCHANGED notStore

InitQAOnly == InitQAChunker /\ InitStore /\ InitQA /\ InitProcIdle /\ InitConc
    /\ InitOthers

SpecQA == InitQAOnly /\ [][NextQA]_vars

\* The question answerer with its knowledge base: add_document calls (each
\* one running the chunker), entries that reach the store directly or from
\* a loaded knowledge base, clear_knowledge_base, and questions.
NextAnswer ==
    \/ \E doc \in {<<>>, <<" ">>, <<"a">>} :
           QAAddDocument(doc) /\ UNCHANGED <<notQA, emVars>>
    \/ ChunkEnter /\ UNCHANGED notChunk
    \/ ChunkLoop /\ UNCHANGED notChunk
    \/ \E outcome \in EmbedOutcomes : QAResume(outcome) /\ UNCHANGED notQA
    \/ QAReturn /\ UNCHANGED <<tcVars, vsVars, notQA, emVars>>
    \/ \E t \in Texts :
           /\ qa_pc = "idle"
           /\ AddChunks(<<[text |-> t, embedding |-> EmbOf(embedding_dimension, t)]>>)
           /\ UNCHANGED notStore
    \/ qa_pc = "idle" /\ Clear /\ UNCHANGED notStore
    \/ \E question \in Questions, k \in 1..MaxK, m \in MinSimilarities,
          outcome \in EmbedOutcomes :
           /\ qa_pc = "idle"
           /\ AnswerQuestion(question, k, m, outcome)
           /\ UNCHANGED <<tcVars, vsVars, qaVars, procVars, concVars, restVars, svcVars>>

SpecAnswer == InitQAOnly /\ [][NextAnswer]_vars

\* The four public operations of QAService, called one after the other.
NextService ==
    \/ \E file \in Files :
           SvcAddDocumentFromFile(file)
               /\ UNCHANGED <<procVars, concVars, restVars, emVars, ansVars>>
    \/ svc_pc = "adding" /\ ChunkEnter /\ UNCHANGED notChunk
    \/ svc_pc = "adding" /\ ChunkLoop /\ UNCHANGED notChunk
    \/ \E outcome \in EmbedOutcomes :
           svc_pc = "adding" /\ QAResume(outcome) /\ UNCHANGED notQA
    \/ \E fails \in SaveFailures :
           SvcAddFinish(fails) /\ UNCHANGED <<tcVars, procVars, concVars, restVars, emVars, ansVars>>
    \/ \E question \in Questions, k \in 1..MaxK, m \in MinSimilarities,
          outcome \in EmbedOutcomes :
           SvcAnswerQuestion(question, k, m, outcome)
               /\ UNCHANGED <<tcVars, vsVars, qaVars, procVars, concVars, restVars>>
    \/ SvcGetStats /\ UNCHANGED <<tcVars, vsVars, qaVars, procVars, concVars, restVars, emVars, ansVars>>
    \/ SvcClear /\ UNCHANGED <<tcVars, qaVars, procVars, concVars, restVars, emVars, ansVars>>

SpecService == InitQAOnly /\ [][NextService]_vars

\* add_document_from_file and clear_knowledge_base alone, over a knowledge
\* base that may hold entries from before: those that _load_knowledge_base
\* (lines 34-42) found on disk.
NextServiceAdd ==
    \/ \E file \in Files :
           SvcAddDocumentFromFile(file)
               /\ UNCHANGED <<procVars, concVars, restVars, emVars, ansVars>>
    \/ svc_pc = "adding" /\ ChunkEnter /\ UNCHANGED notChunk
    \/ svc_pc = "adding" /\ ChunkLoop /\ UNCHANGED notChunk
    \/ \E outcome \in EmbedOutcomes :
           svc_pc = "adding" /\ QAResume(outcome) /\ UNCHANGED notQA
    \/ \E fails \in SaveFailures :
           SvcAddFinish(fails)
               /\ UNCHANGED <<tcVars, procVars, concVars, restVars, emVars, ansVars>>
    \/ SvcClear
           /\ UNCHANGED <<tcVars, qaVars, procVars, concVars, restVars, emVars, ansVars>>
    \/ \E t \in Texts :
           /\ svc_pc = "idle" /\ qa_pc = "idle"
           /\ svc_res.op = "init"
           /\ AddChunks(<<[text |-> t, embedding |-> EmbOf(embedding_dimension, t)]>>)
           /\ UNCHANGED notStore

SpecServiceAdd == InitQAOnly /\ [][NextServiceAdd]_vars

\* RAGProcessor: add_document calls whose embedding may fail at any chunk,
\* and clear_documents.
NextProc ==
    \/ \E doc \in SeqsUpTo(DocChars, MaxDocLen), failAt \in 0..MaxDocLen :
           ProcAddDocument(doc, failAt) /\ UNCHANGED notProc
    \/ ClearDocuments /\ UNCHANGED notProc

InitProcOnly == InitChunkIdle /\ InitStore /\ InitQA /\ InitProc /\ InitConc
    /\ InitOthers

SpecProc == InitProcOnly /\ [][NextProc]_vars

\* One store and three threads, interleaved statement by statement.
NextConc ==
    \/ \E batch \in EmbeddedBatches(embedding_dimension) :
           AdderIndexAdd(batch) /\ UNCHANGED notConc
    \/ AdderAppend /\ UNCHANGED notConc
    \/ ClearerIndex /\ UNCHANGED notConc
    \/ ClearerChunks /\ UNCHANGED notConc
    \/ \E q \in Queries(embedding_dimension), k \in 1..MaxK :
           SearcherCheck(q, k) /\ UNCHANGED notConc
    \/ SearcherSearch /\ UNCHANGED notConc
    \/ SearcherCollect /\ UNCHANGED notConc
    \/ SearcherReturn /\ UNCHANGED notConc

SpecConc == InitStoreOnly /\ [][NextConc]_vars

\* DataNormalizer: _resolve_conflicts on every list of one to MaxCandidates
\* candidates for a key (_combine_sources never makes an empty list).
NextNormalizer ==
    \E n \in 1..MaxCandidates : \E values \in [1..n -> Candidates] :
        ResolveConflicts(values)
            /\ UNCHANGED <<tcVars, vsVars, qaVars, procVars, concVars, emVars,
                           ansVars, svcVars, memVars, dcVars,
                          emCallVars, taskVars>>

SpecNormalizer == InitStoreOnly /\ [][NextNormalizer]_vars


\* ConversationMemory alone: add_exchange and clear on a memory of every
\* max_history from 1 to MaxHistory.
NextMemory ==
    \/ \E question \in MemQuestions, answer \in MemAnswers :
           AddExchange(question, answer, <<>>)
               /\ UNCHANGED <<tcVars, vsVars, qaVars, procVars, concVars,
                              emVars, ansVars, svcVars, dnVars, dcVars,
                          emCallVars, taskVars>>
    \/ MemoryClear
           /\ UNCHANGED <<tcVars, vsVars, qaVars, procVars, concVars,
                          emVars, ansVars, svcVars, dnVars, dcVars,
                          emCallVars, taskVars>>

InitMemoryOnly == InitChunkIdle /\ InitStore /\ InitQA /\ InitProcIdle /\ InitConc
    /\ InitEmbedder /\ InitAnswer /\ InitService /\ InitNormalizer /\ InitMemory
    /\ InitDocChunker /\ InitEmbedderCalls /\ InitTasks

SpecMemory == InitMemoryOnly /\ [][NextMemory]_vars

\* The two orchestrators and their queries: RAGProcessor with documents
\* added and cleared, RAGQuestionAnswerer.answer_question on its knowledge
\* base.
NextQuery ==
    \/ ProcAddDocument(<<"a">>, 0) /\ UNCHANGED notProc
    \/ ClearDocuments /\ UNCHANGED notProc
    \/ \E question \in {<<" ">>, <<"a">>}, return_sources \in BOOLEAN,
          scores \in [1..Len(p_chunks) -> SimilarityScores],
          encode_fails \in BOOLEAN :
           /\ Len(mem_log) < MaxQueries
           /\ ProcQuery(question, return_sources, scores, encode_fails)
           /\ UNCHANGED <<tcVars, vsVars, qaVars, concVars, emVars, ansVars,
                          svcVars, dnVars, dcVars,
                          emCallVars, taskVars>>
    \/ \E question \in {<<" ">>, <<"a">>}, outcome \in EmbedOutcomes :
           AnswerQuestion(question, 1, 300, outcome)
               /\ UNCHANGED <<tcVars, vsVars, qaVars, procVars, concVars, restVars,
                              svcVars>>

SpecQuery == InitQAOnly /\ [][NextQuery]_vars

\* The three chunkers: a TextChunker on which chunk_with_overlap or
\* chunk_text is called, and DocumentChunker.chunk_text on the same text.
NextChunkers ==
    \/ ChunkEnter /\ UNCHANGED notChunk
    \/ ChunkLoop /\ UNCHANGED notChunk
    \/ ChunkTextCall /\ UNCHANGED notChunk
    \/ \E size \in 2..MaxProcChunkSize : \E overlap \in 0..(size \div 2) :
           /\ tc_pc = "call"
           /\ dc_res.op = "init"
           /\ DocChunkText(text, size, overlap)
           /\ UNCHANGED <<tcVars, vsVars, qaVars, procVars, concVars, emVars,
                          ansVars, svcVars, dnVars, memVars, emCallVars, taskVars>>

SpecChunkers == InitChunkOnly /\ [][NextChunkers]_vars

\* A TextChunker on which chunk_with_overlap or chunk_text is called.
NextTextChunker ==
    \/ ChunkEnter /\ UNCHANGED notChunk
    \/ ChunkLoop /\ UNCHANGED notChunk
    \/ ChunkTextCall /\ UNCHANGED notChunk

SpecTextChunker == InitChunkOnly /\ [][NextTextChunker]_vars

\* The DocumentEmbedder called directly: embed_text, embed_texts and
\* embed_chunks, with a model that may fail to load or to encode.
NextEmbedder ==
    \/ \E t \in EmbedderTexts, outcome \in EmbedOutcomes :
           EmbedTextCall(t, outcome)
               /\ UNCHANGED <<tcVars, vsVars, qaVars, procVars, concVars, ansVars,
                              svcVars, dnVars, memVars, dcVars, taskVars>>
    \/ \E op \in {"embed_texts", "embed_chunks"}, outcome \in EmbedOutcomes :
       \E texts \in SeqsUpTo(EmbedderTexts \ {<<>>}, MaxBatch) :
           EmbedBatchCall(op, texts, outcome)
               /\ UNCHANGED <<tcVars, vsVars, qaVars, procVars, concVars, ansVars,
                              svcVars, dnVars, memVars, dcVars, taskVars>>

SpecEmbedder == InitStoreOnly /\ [][NextEmbedder]_vars

\* Everything but the task manager.
notTasks == <<tcVars, vsVars, qaVars, procVars, concVars, emVars, ansVars,
              svcVars, dnVars, memVars, dcVars, emCallVars>>

\* The AsyncTaskManager: start and stop, a thread that submits tasks and
\* reads their status, cancel_task from any thread, and the worker threads.
NextTasks ==
    \/ Start /\ UNCHANGED notTasks
    \/ Stop /\ UNCHANGED notTasks
    \/ \E s \in Submissions : SubmitTask(s) /\ UNCHANGED notTasks
    \/ InspectStatus /\ UNCHANGED notTasks
    \/ \E task_id \in 1..MaxTasks : CancelTask(task_id) /\ UNCHANGED notTasks
    \/ \E w \in DOMAIN workers : WorkerStep(w) /\ UNCHANGED notTasks

SpecTasks == InitStoreOnly /\ [][NextTasks]_vars

\* The same with the scheduling of threads: a worker thread that can take a
\* step is not held back for ever.
SpecTasksFair ==
    InitStoreOnly /\ [][NextTasks]_vars
        /\ \A w \in 1..(MaxStarts * MaxWorkers) :
               WF_vars(w \in DOMAIN workers /\ WorkerStep(w)
                          /\ UNCHANGED notTasks)

\* ================================================================= claims
\* C1: chunk_with_overlap terminates on every text and every configuration
\* with 0 <= chunk_overlap < chunk_size: no call comes back to a window start
\* it has already worked from, so the start reaches the text length and the
\* call returns its chunks.
ChunkWithOverlapTerminates == tc_pc # "diverges"

\* C2: after any sequence of add_chunks and clear calls on a newly created
\* store, add_chunks calls that raise included, get_stats() reports
\* total_chunks equal to index_size.
StatsAgree ==
    LET stats == GetStats(embedding_dimension, index, chunks)
    IN  stats.total_chunks = stats.index_size

\* C3: load is all-or-nothing: a load that fails leaves the similarity
\* structure and the entry list as they were before the call.
LoadAllOrNothing ==
    [][(vs_res'.op = "load" /\ vs_res'.raised) => (index' = index /\ chunks' = chunks)]_vars

\* C4: load fails whenever the .index artifact and the .chunks artifact
\* differ in count: no load completes leaving index_size # total_chunks.
LoadValidatesCounts ==
    (vs_res.op = "load" /\ ~vs_res.raised) =>
        /\ Len(index_file.data) = Len(chunks_file.data)
        /\ GetStats(embedding_dimension, index, chunks).index_size
               = GetStats(embedding_dimension, index, chunks).total_chunks

DimensionMismatchRejected ==
    [][(vs_res'.op = "add_chunks" /\ vs_res'.batch.wrong_length # {}) =>
           (vs_res'.raised /\ index' = index /\ chunks' = chunks)]_vars

\* A batch of two whose second embedding alone has the wrong length was
\* rejected by a store that holds entries.
MismatchRejected ==
    /\ vs_res.op = "add_chunks" /\ vs_res.raised
    /\ vs_res.batch.wrong_length = {2}
    /\ Len(index) > 0 /\ Len(chunks) > 0

\* C7: RAGQuestionAnswerer.add_document is atomic per document and leaves
\* other documents alone: every call comes to its end; when it returns,
\* every chunk of the document is in the store behind what was there; when
\* it fails, the store is what it was before the call.
AddDocumentAtomic ==
    /\ qa_pc # "never_returns"
    /\ qa_pc = "returned" =>
           /\ Len(index) = Len(qa_before.index) + Len(qa_made)
           /\ SubSeq(index, 1, Len(qa_before.index)) = qa_before.index
           /\ chunks = qa_before.chunks \o [i \in 1..Len(qa_made) |->
                                               [text |-> qa_made[i].text]]
    /\ qa_pc = "raised" =>
           /\ index = qa_before.index
           /\ chunks = qa_before.chunks

\* C8: RAGProcessor.add_document is atomic per document: a call in which
\* embedding fails leaves the chunk list and get_stats() as they were, and
\* any other call leaves every chunk of the document in the chunk list.
ProcAddDocumentAtomic ==
    [][p_res'.op = "add_document" =>
          IF p_res'.raised
          THEN /\ p_chunks' = p_chunks
               /\ ProcStats(documents', p_chunks') = ProcStats(documents, p_chunks)
          ELSE Len(p_chunks') = Len(p_chunks) + p_res'.made]_vars

\* C9: under every interleaving of add_chunks, clear and search on one
\* store, a search sees as many entries as the index had vectors when it
\* was searched, and each entry it returns is the entry of the vector that
\* was matched.
SearchSeesLockstep ==
    searcher.pc \in {"collect", "returned"} =>
        /\ \A n \in searcher.lens : n = searcher.ntotal
        /\ \A p \in 1..Len(searcher.results) :
               EmbOf(embedding_dimension, searcher.results[p].chunk.text)
                   = searcher.results[p].vec

\* C10: on a store with n entries search(q, k) returns exactly min(k, n)
\* results (none when n = 0) in non-decreasing distance order, and
\* search_with_score(q, k, threshold) returns those of them whose similarity
\* exp(-distance) is >= threshold (all without a threshold), in the same
\* order: non-increasing similarity.
SearchReturnsNearest ==
    /\ vs_res.op = "search" =>
           LET r == Search(index, chunks, vs_res.q, vs_res.k)
           IN  /\ Len(r) = Min(vs_res.k, Len(chunks))
               /\ \A p \in 1..(Len(r) - 1) : r[p].distance <= r[p + 1].distance
    /\ vs_res.op = "search_with_score" =>
           LET r == Search(index, chunks, vs_res.q, vs_res.k)
               s == SearchWithScore(index, chunks, vs_res.q, vs_res.k, vs_res.threshold)
               kept == SelectSeq(r, LAMBDA x : vs_res.threshold = <<>>
                                        \/ ExpNeg(x.distance) >= vs_res.threshold[1])
           IN  /\ Len(r) = Min(vs_res.k, Len(chunks))
               /\ Len(s) = Len(kept)
               /\ \A p \in 1..Len(s) : s[p].chunk = kept[p].chunk
                                       /\ s[p].similarity = ExpNeg(kept[p].distance)
               /\ \A p \in 1..(Len(s) - 1) : s[p].similarity >= s[p + 1].similarity

\* C11: a question that is not blank, asked of a knowledge base with no
\* entries, gets the fixed 'could not find relevant information' answer with
\* no sources and confidence 0.0 and does not raise; after clear the
\* knowledge base has no entries.
EmptyKnowledgeBaseAnswer ==
    /\ (qa_res.op = "answer_question" /\ Strip(qa_res.question) # <<>>
          /\ qa_res.entries = 0) =>
           /\ ~qa_res.raised
           /\ qa_res.answer = NoInformation
           /\ qa_res.sources = <<>>
           /\ qa_res.confidence = 0
    /\ vs_res.op = "clear" =>
           GetStats(embedding_dimension, index, chunks).total_chunks = 0

\* C12: when answer_question retrieves at least one chunk, the sources are
\* the retrieved chunks in retrieval order, best similarity first, and
\* confidence is the similarity of the first source, the largest of all.
ConfidenceIsBestSource ==
    (qa_res.op = "answer_question" /\ ~qa_res.raised /\ qa_res.retrieved # <<>>) =>
        /\ Len(qa_res.sources) = Len(qa_res.retrieved)
        /\ \A p \in 1..Len(qa_res.sources) :
               /\ qa_res.sources[p].text = qa_res.retrieved[p].chunk.text
               /\ qa_res.sources[p].similarity = qa_res.retrieved[p].similarity
               /\ qa_res.sources[p].similarity <= qa_res.confidence
        /\ \A p \in 1..(Len(qa_res.sources) - 1) :
               qa_res.sources[p].similarity >= qa_res.sources[p + 1].similarity
        /\ qa_res.confidence = qa_res.sources[1].similarity

\* An answer with two sources of different similarity.
TwoSourcesAnswered ==
    /\ qa_res.op = "answer_question" /\ ~qa_res.raised
    /\ Len(qa_res.sources) = 2
    /\ qa_res.sources[1].similarity > qa_res.sources[2].similarity

\* C13: blank input is no error and changes nothing: add_document with
\* blank text returns and the store is as it was; answer_question with a
\* blank question returns the fixed 'Please provide a valid question.' answer
\* with confidence 0.0 and no sources, without raising and without searching.
BlankInputNeutral ==
    /\ Strip(qa_text) = <<>> =>
           /\ qa_pc \in {"idle", "returned"}
           /\ qa_pc = "returned" =>
                  (index = qa_before.index /\ chunks = qa_before.chunks)
    /\ (qa_res.op = "answer_question" /\ Strip(qa_res.question) = <<>>) =>
           /\ ~qa_res.raised
           /\ qa_res.answer = InvalidQuestion
           /\ qa_res.confidence = 0
           /\ qa_res.sources = <<>>
           /\ ~qa_res.searched

\* A whitespace-only question was answered and a whitespace-only document
\* was handed to a knowledge base that holds entries.
BlankInputSeen ==
    /\ qa_res.op = "answer_question" /\ qa_res.question = <<" ">>
    /\ qa_pc = "returned" /\ qa_text = <<" ">>
    /\ chunks # <<>>

NoEmbeddingNoInformation ==
    (qa_res.op = "answer_question" /\ qa_res.embedding = "zeros") =>
        /\ ~qa_res.raised
        /\ qa_res.answer = NoInformation
        /\ qa_res.sources = <<>>
        /\ qa_res.confidence = 0

\* C16: with two or more candidates the resolver returns the value of the
\* candidate of highest confidence alone exactly when that confidence
\* exceeds every other confidence by more than 0.2; [(100, 0.9), (50, 0.5)]
\* resolves to 100.
ResolverDecisiveness ==
    Len(dn_values) >= 2 =>
        LET decisive(i) == \A j \in DOMAIN dn_values \ {i} :
                dn_values[i].confidence - dn_values[j].confidence > 2
        IN /\ dn_resolved.rule = "top" <=> \E i \in DOMAIN dn_values : decisive(i)
           /\ \A i \in DOMAIN dn_values : decisive(i) =>
                  /\ dn_resolved.num = dn_values[i].value
                  /\ dn_resolved.den = 1

\* C17: one candidate resolves to its value; two or more candidates whose
\* two highest confidences differ by at most 0.2 resolve to
\* sum(value * confidence) / sum(confidence), and to the value of the first
\* candidate in descending order of confidence when the confidences sum to
\* zero.
ResolverWeightedMean ==
    LET n == Len(dn_values)
        conf(i) == dn_values[i].confidence
        close == \A i \in 1..n : \E j \in 1..n \ {i} : conf(i) - conf(j) <= 2
        total == SeqSum([i \in 1..n |-> conf(i)])
        weighted == SeqSum([i \in 1..n |-> dn_values[i].value * conf(i)])
        first == CHOOSE i \in 1..n :
                     /\ \A j \in 1..n : conf(j) <= conf(i)
                     /\ \A j \in 1..(i - 1) : conf(j) < conf(i)
    IN /\ n = 1 => dn_resolved.num = dn_values[1].value * dn_resolved.den
       /\ (n >= 2 /\ close /\ total > 0) =>
              dn_resolved.num * total = weighted * dn_resolved.den
       /\ (n >= 2 /\ close /\ total = 0) =>
              dn_resolved.num = dn_values[first].value * dn_resolved.den

\* C18: for every max_history of 1 and more, after any sequence of
\* add_exchange calls the history holds at most max_history exchanges, and
\* they are the most recent min(n, max_history) of the n exchanges added, in
\* the order they were added.
HistoryIsMostRecent ==
    LET n == Len(mem_log)
        kept == IF n < max_history THEN n ELSE max_history
    IN /\ Len(history) <= max_history
       /\ Len(history) = kept
       /\ \A i \in 1..kept : history[i] = mem_log[n - kept + i]

HistoryEvicted ==
    /\ Len(mem_log) > max_history
    /\ max_history >= 2
    /\ history[1] # mem_log[1]
    /\ history[1] # history[2]

\* C19: every query on an orchestrator, whatever its outcome (blank
\* question, nothing retrieved, answer produced), appends exactly one
\* exchange to the conversation history, and the exchange holds the question
\* and the answer the query returned.
QueryAppendsExchange ==
    [][LET asked(res) == \/ res.op = "query"
                         \/ res.op = "answer_question"
           recorded(res) ==
               /\ Len(mem_log') = Len(mem_log) + 1
               /\ history' # <<>>
               /\ history'[Len(history')] = mem_log'[Len(mem_log')]
               /\ ~res.raised =>
                      /\ mem_log'[Len(mem_log')].question = res.question
                      /\ mem_log'[Len(mem_log')].answer = res.answer
       IN /\ (p_res' # p_res /\ asked(p_res')) => recorded(p_res')
          /\ (qa_res' # qa_res /\ asked(qa_res')) => recorded(qa_res')]_vars

\* C20: no chunker emits a chunk whose text is empty after stripping, and a
\* text that is empty or all whitespace yields no chunk: for
\* TextChunker.chunk_text, TextChunker.chunk_with_overlap and
\* DocumentChunker.chunk_text.
NoEmptyChunk ==
    /\ \A i \in DOMAIN tc_chunks : Strip(tc_chunks[i].text) # <<>>
    /\ (tc_pc = "done" /\ Strip(text) = <<>>) => tc_chunks = <<>>
    /\ \A i \in DOMAIN dc_res.chunks : Strip(dc_res.chunks[i].text) # <<>>
    /\ (dc_res.op = "chunk_text" /\ Strip(dc_res.text) = <<>>) => dc_res.chunks = <<>>

\* C21: every chunk of chunk_with_overlap has at most chunk_size characters,
\* and every chunk of chunk_text has at most chunk_size characters unless it
\* is one single sentence that is itself longer than chunk_size.
ChunkSizeBound ==
    \A i \in DOMAIN tc_chunks :
        LET c == tc_chunks[i]
        IN  IF "start_pos" \in DOMAIN c
            THEN Len(c.text) <= chunk_size
            ELSE \/ Len(c.text) <= chunk_size
                 \/ Len(SplitIntoSentences(c.text)) = 1

LongSentenceAlone ==
    /\ tc_pc = "done"
    /\ Len(tc_chunks) >= 2
    /\ \A i \in DOMAIN tc_chunks : ~("start_pos" \in DOMAIN tc_chunks[i])
    /\ \E i \in DOMAIN tc_chunks : Len(tc_chunks[i].text) > chunk_size
    /\ \E i \in DOMAIN tc_chunks : Len(tc_chunks[i].text) = chunk_size

\* C22: embed_text on an empty or whitespace-only text returns the zero
\* vector of the embedder's dimension, does not fail and does not touch the
\* model (it neither loads it nor encodes with it), also when the model is
\* not available.
BlankTextZeroVector ==
    (em_res.op = "embed_text" /\ Strip(em_res.arg) = <<>>) =>
        /\ ~em_res.raised
        /\ em_res.result = [i \in 1..embedding_dimension |-> 0]
        /\ ~em_res.load
        /\ em_res.encoded = <<>>

\* C23: once a text has been embedded successfully (it is in the cache),
\* embedding the same text again with embed_text, embed_texts or
\* embed_chunks gives the cached vector and does not call the model for it.
CachedTextNotEncodedAgain ==
    [][(em_res' # em_res /\ em_res'.op # "init") =>
          \A t \in DOMAIN memory_cache :
              /\ \A i \in DOMAIN em_res'.encoded : em_res'.encoded[i] # t
              /\ (em_res'.op = "embed_text" /\ em_res'.arg = t) =>
                     (~em_res'.raised /\ em_res'.result = memory_cache[t])]_vars

\* C24: when add_document_from_file succeeds, chunks_added is the number of
\* chunks this call added to the knowledge base: total_chunks after the call
\* minus total_chunks before it.
ChunksAddedIsGrowth ==
    [][(svc_pc = "adding" /\ svc_pc' = "idle" /\ svc_res'.success) =>
          svc_res'.chunks_added = Len(chunks') - Len(qa_before.chunks)]_vars

ParagraphsPackedWhole ==
    LET paragraphs == SplitIntoParagraphs(text)
        cleaned == [i \in DOMAIN paragraphs |-> CleanText(paragraphs[i])]
        packed == PackParagraphs(cleaned, chunk_size,
                                 [chunks |-> <<>>, current_chunk |-> <<>>])
        expected == Flushed(packed.chunks, packed.current_chunk)
    IN  (/\ tc_pc = "done"
         /\ tc_chunks # <<>>
         /\ \A i \in DOMAIN tc_chunks : ~("start_pos" \in DOMAIN tc_chunks[i])
         /\ \A i \in DOMAIN cleaned : Len(cleaned[i]) <= chunk_size)
        => [i \in DOMAIN tc_chunks |-> tc_chunks[i].text] = expected

\* C28: conflict resolution does not depend on the order of the candidates:
\* _resolve_multi_value gives the same value on every permutation of the
\* list it resolved.
ResolutionOrderIndependent ==
    Len(dn_values) >= 2 =>
        \A perm \in [DOMAIN dn_values -> DOMAIN dn_values] :
            (\A i, j \in DOMAIN dn_values : perm[i] = perm[j] => i = j) =>
                LET permuted == [i \in DOMAIN dn_values |-> dn_values[perm[i]]]
                    other == ResolveMultiValue(permuted)
                IN other.num * dn_resolved.den = dn_resolved.num * other.den

\* C26: with the task manager started, the caller that reads the status of
\* the task right after submit_task returned it reads QUEUED, whatever the
\* worker threads did in between.
SubmittedTaskSeenQueued ==
    [][(running /\ caller.pc = "returned" /\ caller'.pc = "idle")
           => caller'.seen = QUEUED]_vars

\* The liveness reading of C25, under SpecTasksFair: with the manager
\* started and not stopped, a submitted task that is not cancelled and whose
\* function returns normally eventually reaches COMPLETED with the
\* function's return value as result.
ReturningTaskEventuallyCompletes ==
    \A t \in 1..MaxTasks :
        <>[](/\ t \in DOMAIN tasks
             /\ running
             /\ ~tasks[t].cancel_requested
             /\ tasks[t].behaviour = "returns")
        => <>(/\ t \in DOMAIN tasks
              /\ tasks[t].status = COMPLETED
              /\ tasks[t].result = ReturnOf(t))

\* C25: a submitted task that is not cancelled and whose function returns
\* normally reaches COMPLETED with the function's return value as result:
\* once a worker is done with such a task, it has not ended in any other
\* status (a terminal status is never left).
ReturningTaskCompletes ==
    \A t \in DOMAIN tasks :
        (/\ tasks[t].behaviour = "returns"
         /\ ~tasks[t].cancel_requested
         /\ tasks[t].status \in TerminalStatuses)
        => (tasks[t].status = COMPLETED /\ tasks[t].result = ReturnOf(t))

\* C30: a task's status moves only QUEUED -> RUNNING -> COMPLETED, FAILED or
\* CANCELLED, or QUEUED -> CANCELLED, and never leaves a terminal status;
\* its function is executed at most once, and never when cancellation was
\* requested before a worker took the task from the queue; a task whose
\* function raises ends FAILED, and the worker goes on to later tasks.
TaskLifecycle ==
    [][/\ \A t \in DOMAIN tasks :
              /\ tasks'[t].status # tasks[t].status =>
                     \/ tasks[t].status = QUEUED
                            /\ tasks'[t].status \in {RUNNING, CANCELLED}
                     \/ tasks[t].status = RUNNING
                            /\ tasks'[t].status \in TerminalStatuses
              /\ tasks'[t].executed <= 1
       /\ \A w \in DOMAIN workers :
              /\ (workers'[w].pc = "in_fn") => ~workers'[w].cancel_at_get
              /\ (workers[w].pc = "in_fn" /\ workers'[w].pc # "in_fn"
                      /\ tasks[workers[w].task].behaviour # "returns") =>
                     /\ tasks'[workers[w].task].status = FAILED
                     /\ workers'[w].pc = "while"]_vars

====
